---- MODULE Spec2Model ----
(***************************************************************************)
(* Model of the tag analytics of obsidian_tag_manager.py                   *)
(* (class ObsidianTagManager): the vault scan, the co-occurrence graph,    *)
(* cluster / bridge / isolated-tag detection, temporal trends, semantic    *)
(* duplicates, removal candidates, quality metrics and standardization     *)
(* suggestions, run in the order of _export_json_data.                     *)
(*                                                                         *)
(* Tags are strings.  Python dicts keep insertion order, so every dict the *)
(* code iterates is modelled with its key sequence; Python sets of strings *)
(* iterate in hash order, which is an input of the run (set_order).        *)
(* Scores that the code computes as floats are exact rationals here,       *)
(* carried as integers over a named common denominator.                    *)
(***************************************************************************)
EXTENDS Integers, Sequences, FiniteSets, TLC

VARIABLES vault, rglob_order, set_order, pc, run,
          tag_locations, suggestions, temporal, co_occurrences, processed,
          relationships, research_domains, semantic, removal, quality,
          first_report, par

vars == <<vault, rglob_order, set_order, pc, run,
          tag_locations, suggestions, temporal, co_occurrences, processed,
          relationships, research_domains, semantic, removal, quality,
          first_report, par>>

(***************************************************************************)
(* Generic helpers                                                         *)
(***************************************************************************)
\* A sequence / function given by a rule, as an explicit value: TLC applies
\* a rule [x \in S |-> e] by evaluating e again at every application.
AsSeq(s) == s \o <<>>
AsFcn(f) == f @@ <<>>

Range(s) == {s[i] : i \in 1..Len(s)}

Min2(a, b) == IF a <= b THEN a ELSE b

RECURSIVE SumSeq(_)
SumSeq(s0) ==
    LET s == AsSeq(s0) IN IF s = <<>> THEN 0 ELSE Head(s) + SumSeq(Tail(s))

\* the concatenation of a sequence of sequences
RECURSIVE Concat(_)
Concat(ss0) ==
    LET ss == AsSeq(ss0)
        n == Len(ss)
        h == n \div 2
    IN IF n = 0 THEN <<>>
       ELSE IF n = 1 THEN ss[1]
       ELSE Concat(SubSeq(ss, 1, h)) \o Concat(SubSeq(ss, h + 1, n))

RECURSIVE Repeat(_, _)
Repeat(x, n) == IF n <= 0 THEN <<>> ELSE <<x>> \o Repeat(x, n - 1)

Prefix(s, n) == SubSeq(s, 1, Min2(n, Len(s)))

Reverse(s) == AsSeq([i \in 1..Len(s) |-> s[Len(s) + 1 - i]])

\* The elements of s at the indices I, in order.
SelectIdx(s, I) ==
    LET t == AsSeq(s)
    IN AsSeq([p \in 1..Cardinality(I) |->
                t[CHOOSE i \in I : Cardinality({j \in I : j < i}) = p - 1]])

\* The elements of s that are in keep, in order (a list comprehension).
FilterSeq(s, keep) ==
    LET t == AsSeq(s) IN SelectIdx(t, {i \in 1..Len(t) : t[i] \in keep})

\* First occurrences of the elements of s, in order (dict insertion order).
Dedup(s) ==
    LET t == AsSeq(s)
    IN SelectIdx(t, {i \in 1..Len(t) : \A j \in 1..(i - 1) : t[j] # t[i]})

\* The second components of the pairs of entries whose first component is
\* g, in order (the list a defaultdict(list) holds for the key g).
ValuesOfKey(entries, g) ==
    SelectIdx([i \in 1..Len(entries) |-> entries[i][2]],
              {i \in 1..Len(entries) : entries[i][1] = g})

\* list.sort(key=..., reverse=True) / sorted(...): Before(a, b) is "a's key
\* is strictly ahead of b's"; elements with equal keys keep their order.
SortedSeq(s, Before(_, _)) ==
    LET t == AsSeq(s)
        n == Len(t)
        pos == AsSeq([i \in 1..n |-> Cardinality({j \in 1..n :
                      \/ Before(t[j], t[i])
                      \/ (~Before(t[i], t[j]) /\ j < i)})])
    IN AsSeq([p \in 1..n |-> t[CHOOSE i \in 1..n : pos[i] = p - 1]])

(***************************************************************************)
(* Strings (str methods used by the code)                                  *)
(***************************************************************************)
CharAt(s, i) == SubSeq(s, i, i)

StartsWith(s, p) == Len(p) <= Len(s) /\ SubSeq(s, 1, Len(p)) = p

EndsWith(s, p) == Len(p) <= Len(s) /\ SubSeq(s, Len(s) - Len(p) + 1, Len(s)) = p

\* p in s
Contains(s, p) ==
    \E i \in 1..(Len(s) - Len(p) + 1) : SubSeq(s, i, i + Len(p) - 1) = p

UpperChars == <<"A", "I", "M", "L", "K">>
LowerChars == <<"a", "i", "m", "l", "k">>

LowerChar(c) ==
    IF \E i \in 1..Len(UpperChars) : UpperChars[i] = c
    THEN LowerChars[CHOOSE i \in 1..Len(UpperChars) : UpperChars[i] = c]
    ELSE c

\* str.lower()
RECURSIVE Lower(_)
Lower(s) == IF Len(s) = 0 THEN ""
            ELSE LowerChar(CharAt(s, 1)) \o Lower(SubSeq(s, 2, Len(s)))

Digits == {"0", "1", "2", "3", "4", "5", "6", "7", "8", "9"}

\* str.isdigit()
IsDigit(s) == Len(s) > 0 /\ \A i \in 1..Len(s) : CharAt(s, i) \in Digits

\* str.split('_')
RECURSIVE Split(_)
Split(s) ==
    IF \E i \in 1..Len(s) : CharAt(s, i) = "_"
    THEN LET k == CHOOSE i \in 1..Len(s) :
                    CharAt(s, i) = "_" /\ \A j \in 1..(i - 1) : CharAt(s, j) # "_"
         IN <<SubSeq(s, 1, k - 1)>> \o Split(SubSeq(s, k + 1, Len(s)))
    ELSE <<s>>

(***************************************************************************)
(* Thresholds and caps of the code                                         *)
(***************************************************************************)
TopAssociations == 30
MinSeedUses == 5
MinConnections == 5
MinClusterWeight == 3
MinClusterSize == 2
TopSeeds == 10
MinBridgeUses == 5
MinBridgeDomains == 3
TopBridges == 15
MinIsolatedUses == 3

(***************************************************************************)
(* The vault: markdown files, each with the tags found in its text and the *)
(* year found in its name (NoYear when the name has no 4-digit run).       *)
(***************************************************************************)
NoYear == 0
CurrentYear == 2024

File(tags, year) == [hashtags |-> tags, year |-> year]

\* Two topic groups around machine_learning and assessment that share
\* online_learning; machine_learning and assessment are written twice (in
\* two spellings) in the notes that carry them.
NoteP == <<"machine_learning", "Machine_Learning", "assessment", "Assessment",
           "online_learning", "neural", "rubric", "school", "ai", "k12",
           "teaching", "teacher_training", "feedback", "study", "x">>
NoteQ == <<"machine_learning", "online_learning",
           "neural", "rubric", "school", "ai", "k12">>
NoteR == <<"assessment", "Assessment", "online_learning",
           "teaching", "teacher_training", "feedback", "study", "x">>

MaxP == 3
MaxQ == 1
MaxR == 1

ClusterVaults ==
    { Repeat(File(NoteP, 2021), p) \o Repeat(File(NoteQ, 2022), q)
        \o Repeat(File(NoteR, 2023), r) :
      p \in 0..MaxP, q \in 0..MaxQ, r \in 0..MaxR }

\* Notes whose tags differ in form: variants of the mapping table, short,
\* numeric, very long and author tags, and tags that share words.  The
\* notes of the second kind have no year in their name.
NoteA == <<"virtual_class", "remote_class", "history_class", "biology_class",
           "ml", "machine_learning", "12", "20_24", "smith_",
           "international_conference_proceedings", "x", "k12">>
NoteB == <<"virtual_class", "remote_class", "ML", "ai", "2024", "k-12">>

MaxA == 2
MaxB == 2

LexicalVaults ==
    { Repeat(File(NoteA, 2020), a) \o Repeat(File(NoteB, NoYear), b) :
      a \in 0..MaxA, b \in 0..MaxB }

\* Notes that carry one tag only, spread over the years of their names.
NoteT == <<"study">>
NoteYears == <<2013, 2016, 2022, 2023>>

MaxPerYear == 2

YearVaults ==
    { Concat([i \in 1..Len(NoteYears) |-> Repeat(File(NoteT, NoteYears[i]), c[i])]) :
      c \in [1..Len(NoteYears) -> 0..MaxPerYear] }

\* Steady notes: the tag of NoteT on c notes of each of the five years before
\* the current one and on k notes of the current year.
SteadyYears == <<2019, 2020, 2021, 2022, 2023>>

MaxSteady == 2
MaxNow == 5

SteadyVaults ==
    { Concat([i \in 1..Len(SteadyYears) |-> Repeat(File(NoteT, SteadyYears[i]), c)])
        \o Repeat(File(NoteT, CurrentYear), k) :
      c \in 0..MaxSteady, k \in 0..MaxNow }

\* Wide notes: w copies of one note of 17 tags, each of which then has more
\* bridge candidates among its co-tags than the bridge list holds.
NoteW == <<"machine_learning", "assessment", "online_learning", "neural", "rubric",
           "school", "ai", "k12", "teaching", "teacher_training", "feedback",
           "study", "x", "virtual_class", "remote_class", "history_class", "ml">>

MaxW == 5

WideVaults == { Repeat(File(NoteW, 2022), w) : w \in 0..MaxW }

\* Group notes: three groups of seven tags, each group on n notes of its
\* own; with n > 5 every tag is a seed candidate and every group a cluster.
NoteX == <<"machine_learning", "online_learning", "neural", "rubric", "school",
           "ai", "k12">>
NoteY == <<"assessment", "teaching", "teacher_training", "feedback", "study",
           "x", "virtual_class">>
NoteZ == <<"remote_class", "history_class", "biology_class", "ml",
           "gamification1", "gamification2", "gamification3">>

MaxGroup == 6

GroupVaults ==
    { Repeat(File(NoteX, 2021), n) \o Repeat(File(NoteY, 2022), n)
        \o Repeat(File(NoteZ, 2023), n) : n \in MinSeedUses..MaxGroup }

\* Stem notes: one note of 19 pairs of tags that share a stem and of four
\* tags that share a suffix, so that the merge step accepts more groups than
\* it returns.
NoteS == <<"tester", "testing", "walker", "walking", "talker", "talking",
           "jumper", "jumping", "helper", "helping", "worker", "working",
           "player", "playing", "reader", "reading", "singer", "singing",
           "builder", "building", "farmer", "farming", "hunter", "hunting",
           "painter", "painting", "printer", "printing", "speaker",
           "speaking", "thinker", "thinking", "dancer", "dancing", "leader",
           "leading", "cooker", "cooking", "virtual_class", "remote_class",
           "history_class", "biology_class">>

MaxStem == 1

StemVaults == { Repeat(File(NoteS, NoYear), n) : n \in 0..MaxStem }

\* Pair notes: machine_learning has seven neighbours of weight above 3, of
\* which only neural is strongly associated with it once it is used on k
\* notes of its own; neural and rubric are seed candidates as well.
NoteC == <<"machine_learning", "neural", "rubric", "school", "ai", "k12", "x">>
NoteD == <<"machine_learning", "neural">>
NoteE == <<"machine_learning", "feedback">>
NoteM == <<"machine_learning">>
NoteN == <<"neural">>
NoteO == <<"rubric">>

MaxAlone == 1

PairVaults ==
    { Repeat(File(NoteC, 2021), 4) \o Repeat(File(NoteD, 2021), 1)
        \o Repeat(File(NoteE, 2022), 4) \o Repeat(File(NoteN, 2022), 1)
        \o Repeat(File(NoteO, 2023), 2) \o Repeat(File(NoteM, 2023), k) :
      k \in 0..MaxAlone }

\* Synonym notes: machine_learning belongs to the concept of teaching and to
\* the concept of ai, and no two of the three tags share a stem.
NoteL == <<"machine_learning", "ai", "teaching">>

MaxSynonym == 2

SynonymVaults == { Repeat(File(NoteL, NoYear), n) : n \in 0..MaxSynonym }

\* Prefix notes: three tags that share their first letters and no stem, and
\* notes that carry one of them alone.
NoteG == <<"gamification1", "gamification2", "gamification3">>
NoteH == <<"gamification2">>

MaxG == 1
MaxH == 1

PrefixVaults ==
    { Repeat(File(NoteG, NoYear), g) \o Repeat(File(NoteH, NoYear), e) :
      g \in 0..MaxG, e \in 0..MaxH }

Vaults ==
    ClusterVaults \cup LexicalVaults \cup YearVaults \cup SteadyVaults
      \cup WideVaults \cup PrefixVaults \cup GroupVaults \cup StemVaults
      \cup PairVaults \cup SynonymVaults

\* Hash orders of a run: the iteration order of a set of strings.
TagUniverse == <<"machine_learning", "Machine_Learning", "assessment", "Assessment",
                 "online_learning", "neural", "rubric", "school", "ai", "k12",
                 "teaching", "teacher_training", "feedback", "study", "x",
                 "virtual_class", "remote_class", "history_class", "biology_class",
                 "ml", "ML", "12", "20_24", "2024", "smith_", "k-12",
                 "gamification1", "gamification2", "gamification3",
                 "international_conference_proceedings",
                 "tester", "testing", "walker", "walking", "talker",
                 "talking", "jumper", "jumping", "helper", "helping",
                 "worker", "working", "player", "playing", "reader",
                 "reading", "singer", "singing", "builder", "building",
                 "farmer", "farming", "hunter", "hunting", "painter",
                 "painting", "printer", "printing", "speaker", "speaking",
                 "thinker", "thinking", "dancer", "dancing", "leader",
                 "leading", "cooker", "cooking">>

SetOrders == {"up", "down"}

\* list(S) / iteration over the set S under hash order h
SetToSeq(S, h) ==
    LET all == IF h = "up" THEN TagUniverse ELSE Reverse(TagUniverse)
    IN FilterSeq(all, S)

\* Path.rglob('*.md'): the directory order of the files
RglobOrders(n) == {[i \in 1..n |-> i], [i \in 1..n |-> n + 1 - i]}

(***************************************************************************)
(* scan_vault_tags                                                         *)
(***************************************************************************)
\* (tag, file) for every hashtag of every file, in scan order, author tags
\* and empty tags dropped
\* FileEntries as it would be if tags ending with "_" were recorded
RECURSIVE FileEntriesWithAuthors(_, _)
FileEntriesWithAuthors(f, tags) ==
    IF tags = <<>> THEN <<>>
    ELSE LET tag == Lower(Head(tags))
         IN (IF tag # "" THEN <<<<tag, f>>>> ELSE <<>>)
            \o FileEntriesWithAuthors(f, Tail(tags))
RECURSIVE FileEntries(_, _)
FileEntries(f, tags) ==
    IF tags = <<>> THEN <<>>
    ELSE LET tag == Lower(Head(tags))
         IN (IF tag # "" /\ ~EndsWith(tag, "_") THEN <<<<tag, f>>>> ELSE <<>>)
            \o FileEntries(f, Tail(tags))

RECURSIVE ScanEntries(_, _)
ScanEntries(v, order) ==
    IF order = <<>> THEN <<>>
    ELSE FileEntries(Head(order), v[Head(order)].hashtags)
         \o ScanEntries(v, Tail(order))

\* dict(tag_locations): keys in insertion order, each with its list of files
ScanVaultTags(v, order) ==
    LET entries == ScanEntries(v, order)
        keys    == Dedup([i \in 1..Len(entries) |-> entries[i][1]])
        filesOf(t) ==
            LET idx == SelectIdx(entries, {i \in 1..Len(entries) : entries[i][1] = t})
            IN AsSeq([k \in 1..Len(idx) |-> idx[k][2]])
    IN [keys |-> keys, files |-> AsFcn([t \in Range(keys) |-> filesOf(t)])]

EmptyIndex == [keys |-> <<>>, files |-> <<>>]

Uses(tl, t) == Len(tl.files[t])

(***************************************************************************)
(* analyze_tag_relationships: the co-occurrence graph                      *)
(***************************************************************************)
\* file_tags: file -> set of its tags
FileTags(tl) ==
    LET fs == UNION {Range(tl.files[t]) : t \in Range(tl.keys)}
    IN AsFcn([f \in fs |-> {t \in Range(tl.keys) : f \in Range(tl.files[t])}])

\* files of file_tags in insertion order
FileTagsKeys(tl) ==
    Dedup(Concat([i \in 1..Len(tl.keys) |-> tl.files[tl.keys[i]]]))

\* PairCount as it would be if the pairs were taken from neighbouring
\* positions only (zip(s, s[1:]) instead of combinations)
PairCountAdjacent(s, a, b) ==
    Cardinality({i \in 1..(Len(s) - 1) : s[i] = a /\ s[i + 1] = b})

\* how many of the combinations of s are the pair (a, b), i.e. how often
\* lines 296-297 run for this file with (tag1, tag2) = (a, b)
PairCount(s, a, b) ==
    LET pa == {i \in 1..Len(s) : s[i] = a}
        pb == {j \in 1..Len(s) : s[j] = b}
    IN Cardinality({ij \in pa \X pb : ij[1] < ij[2]})

\* co_occurrences after the loop of lines 294-297.  For a file whose tag
\* set iterates as s = (s1, s2, ...), combinations yields (s1,s2), (s1,s3),
\* ..., so both the outer dict and each inner dict receive their new keys
\* in the order of s.  keys: the outer keys in insertion order; nb: the
\* inner keys of each tag in insertion order; w: the counts, each the
\* number of increments of lines 296 and 297.
BuildCoOccurrences(tl, h) ==
    LET ft    == FileTags(tl)
        fk    == FileTagsKeys(tl)
        iter  == AsSeq([i \in 1..Len(fk) |-> SetToSeq(ft[fk[i]], h)])
        keys  == Dedup(Concat([i \in 1..Len(fk) |->
                        IF Len(iter[i]) >= 2 THEN iter[i] ELSE <<>>]))
        others(a) == Dedup(Concat([i \in 1..Len(fk) |->
                        IF a \in Range(iter[i])
                        THEN FilterSeq(iter[i], Range(iter[i]) \ {a})
                        ELSE <<>>]))
        cnt(a, b) == SumSeq([i \in 1..Len(fk) |->
                        PairCount(iter[i], a, b) + PairCount(iter[i], b, a)])
    IN [keys |-> keys,
        nb   |-> AsFcn([a \in Range(keys) |-> others(a)]),
        w    |-> AsFcn([a \in Range(keys) |->
                        AsFcn([b \in Range(others(a)) |-> cnt(a, b)])])]

EmptyGraph == [keys |-> <<>>, nb |-> <<>>, w |-> <<>>]

\* defaultdict access co_occurrences[tag]: a missing key is inserted with an
\* empty inner dict
Touch(co, tag) ==
    IF tag \in Range(co.keys) THEN co
    ELSE LET ks == Range(co.keys) \cup {tag}
         IN [keys |-> Append(co.keys, tag),
             nb   |-> AsFcn([a \in ks |-> IF a = tag THEN <<>> ELSE co.nb[a]]),
             w    |-> AsFcn([a \in ks |-> IF a = tag THEN <<>> ELSE co.w[a]])]

RECURSIVE TouchAll(_, _)
TouchAll(co, tags) ==
    IF tags = <<>> THEN co ELSE TouchAll(Touch(co, Head(tags)), Tail(tags))

\* co_occurrences[tag] as read through the defaultdict, without the insert
CoTags(co, tag) == IF tag \in Range(co.keys) THEN co.w[tag] ELSE <<>>

\* count / tag_count > 0.3
Associated(count, uses) == 10 * count > 3 * uses

\* lines 299-321: strong associations, strongest first, one per tag pair
StrongAssociations(co, tl) ==
    LET assoc(tag) ==
            LET cs == co.nb[tag]
                n  == Uses(tl, tag)
                ok == {k \in 1..Len(cs) :
                         /\ n > MinSeedUses
                         /\ Associated(co.w[tag][cs[k]], n)
                         /\ co.w[tag][cs[k]] > MinClusterWeight}
            IN SelectIdx([k \in 1..Len(cs) |->
                            [tag1 |-> tag, tag2 |-> cs[k],
                             co_count |-> co.w[tag][cs[k]], tag_count |-> n]], ok)
        cand == Concat([i \in 1..Len(co.keys) |-> assoc(co.keys[i])])
        Stronger(x, y) == x.co_count * y.tag_count > y.co_count * x.tag_count
        sorted == SortedSeq(cand, Stronger)
        pair(x) == {x.tag1, x.tag2}
        uniq == SelectIdx(sorted, {i \in 1..Len(sorted) :
                    \A j \in 1..(i - 1) : pair(sorted[j]) # pair(sorted[i])})
    IN Prefix(uniq, TopAssociations)

(***************************************************************************)
(* _find_tag_clusters                                                      *)
(***************************************************************************)
\* number of co-tags of tag with count > 3
Connections(co, tag) ==
    Cardinality({c \in DOMAIN CoTags(co, tag) : co.w[tag][c] > MinClusterWeight})

\* lines 353-358, over the index keys in order
SeedCandidates(co, tl) ==
    LET ok == {t \in Range(tl.keys) :
                 Uses(tl, t) > MinSeedUses /\ Connections(co, t) > MinConnections}
        ks == FilterSeq(tl.keys, ok)
    IN AsSeq([i \in 1..Len(ks) |-> <<ks[i], Connections(co, ks[i])>>])

\* the tags whose co_occurrences entry the seed scan reads
SeedScanReads(tl) ==
    FilterSeq(tl.keys, {t \in Range(tl.keys) : Uses(tl, t) > MinSeedUses})

\* count / len(tag_locations[seed]) > 0.4
StrongEnough(count, uses) == 10 * count > 4 * uses

\* ClusterMembers as it would be without the "co_tag not in processed" test
ClusterMembersUnchecked(co, tl, seed, taken) ==
    {c \in DOMAIN CoTags(co, seed) :
        /\ co.w[seed][c] > MinClusterWeight
        /\ StrongEnough(co.w[seed][c], Uses(tl, seed))}

\* lines 372-377: the co-tags a seed pulls into its cluster
ClusterMembers(co, tl, seed, taken) ==
    {c \in DOMAIN CoTags(co, seed) :
        /\ c \notin taken
        /\ co.w[seed][c] > MinClusterWeight
        /\ StrongEnough(co.w[seed][c], Uses(tl, seed))}

RECURSIVE SumUses(_, _)
SumUses(tl, S) ==
    IF S = {} THEN 0
    ELSE LET t == CHOOSE x \in S : TRUE
         IN Uses(tl, t) + SumUses(tl, S \ {t})

\* BuildClusters as it would be if the tags of a cluster that is not kept
\* were released
RECURSIVE BuildClustersReleasing(_, _, _, _, _)
BuildClustersReleasing(co, tl, seeds, acc, h) ==
    IF seeds = <<>> THEN acc
    ELSE LET seed == Head(seeds)[1]
         IN IF seed \in acc.processed
            THEN BuildClustersReleasing(co, tl, Tail(seeds), acc, h)
            ELSE LET members == ClusterMembers(co, tl, seed, acc.processed \cup {seed})
                     cluster == {seed} \cup members
                     entry   == [tags |-> SetToSeq(cluster, h),
                                 size |-> Cardinality(cluster),
                                 total_uses |-> SumUses(tl, cluster),
                                 seed |-> seed]
                     kept    == Cardinality(cluster) > MinClusterSize
                 IN BuildClustersReleasing(co, tl, Tail(seeds),
                        [clusters  |-> IF kept THEN Append(acc.clusters, entry)
                                       ELSE acc.clusters,
                         processed |-> IF kept THEN acc.processed \cup cluster
                                       ELSE acc.processed,
                         divisors  |-> acc.divisors \cup
                            {Uses(tl, seed) : c \in
                               {x \in DOMAIN CoTags(co, seed) :
                                  /\ x \notin acc.processed \cup {seed}
                                  /\ co.w[seed][x] > MinClusterWeight}},
                         started   |-> Append(acc.started, seed),
                         discarded |-> IF kept THEN acc.discarded
                                       ELSE Append(acc.discarded, entry)], h)

\* lines 364-385: acc = [clusters, processed, divisors, started, discarded];
\* divisors are the numbers line 374 divides by, started the seeds that were
\* not skipped by line 365, discarded the clusters that line 379 did not keep
RECURSIVE BuildClusters(_, _, _, _, _)
BuildClusters(co, tl, seeds, acc, h) ==
    IF seeds = <<>> THEN acc
    ELSE LET seed == Head(seeds)[1]
         IN IF seed \in acc.processed
            THEN BuildClusters(co, tl, Tail(seeds), acc, h)
            ELSE LET members == ClusterMembers(co, tl, seed, acc.processed \cup {seed})
                     cluster == {seed} \cup members
                     entry   == [tags |-> SetToSeq(cluster, h),
                                 size |-> Cardinality(cluster),
                                 total_uses |-> SumUses(tl, cluster),
                                 seed |-> seed]
                 IN BuildClusters(co, tl, Tail(seeds),
                        [clusters  |-> IF Cardinality(cluster) > MinClusterSize
                                       THEN Append(acc.clusters, entry)
                                       ELSE acc.clusters,
                         processed |-> acc.processed \cup cluster,
                         divisors  |-> acc.divisors \cup
                            {Uses(tl, seed) : c \in
                               {x \in DOMAIN CoTags(co, seed) :
                                  /\ x \notin acc.processed \cup {seed}
                                  /\ co.w[seed][x] > MinClusterWeight}},
                         started   |-> Append(acc.started, seed),
                         discarded |-> IF Cardinality(cluster) > MinClusterSize
                                       THEN acc.discarded
                                       ELSE Append(acc.discarded, entry)], h)

\* the accumulator of BuildClusters before the first seed
NoClusters ==
    [clusters |-> <<>>, processed |-> {}, divisors |-> {}, started |-> <<>>,
     discarded |-> <<>>]

\* MoreUses as it would be without reverse=True
FewerUses(x, y) == x.total_uses < y.total_uses
MoreUses(x, y) == x.total_uses > y.total_uses

MoreConnected(x, y) == x[2] > y[2]

\* _find_tag_clusters: the clusters returned, the claimed tags, and the
\* co_occurrences dict as the function leaves it
FindTagClusters(co, tl, h) ==
    LET seeds == SortedSeq(SeedCandidates(co, tl), MoreConnected)
        co2   == TouchAll(co, SeedScanReads(tl))
        built == BuildClusters(co2, tl, Prefix(seeds, TopSeeds), NoClusters, h)
    IN [clusters  |-> SortedSeq(built.clusters, MoreUses),
        processed |-> built.processed,
        co        |-> co2,
        divisors  |-> built.divisors]

(***************************************************************************)
(* _find_bridge_tags                                                       *)
(***************************************************************************)
DomainNames == <<"education", "ai", "research", "professional", "social",
                 "technology", "assessment", "cognitive">>

domain_patterns ==
    [education |->
        [keywords |-> <<"learning", "education", "pedagogy", "teaching", "student",
                        "classroom", "curriculum", "instruction", "school", "academic">>,
         patterns |-> <<"_education", "edu_", "_learning", "teach_">>],
     ai |->
        [keywords |-> <<"ai", "artificial", "machine", "intelligence", "algorithm",
                        "automated", "computational", "neural", "deep", "generative">>,
         patterns |-> <<"ai_", "_ai", "ml_", "_learning", "intelligent_">>],
     research |->
        [keywords |-> <<"research", "method", "study", "analysis", "theory",
                        "framework", "investigation", "empirical", "qualitative",
                        "quantitative">>,
         patterns |-> <<"_research", "research_", "_method", "_analysis", "_study">>],
     professional |->
        [keywords |-> <<"teacher", "professional", "development", "training",
                        "practice", "competency", "faculty", "educator", "instructor">>,
         patterns |-> <<"professional_", "teacher_", "_development", "_training">>],
     social |->
        [keywords |-> <<"social", "online", "community", "collaborative", "network",
                        "interaction", "communication", "virtual", "digital", "media">>,
         patterns |-> <<"social_", "online_", "digital_", "_community", "_network">>],
     technology |->
        [keywords |-> <<"technology", "tech", "digital", "computer", "software",
                        "platform", "tool", "system", "application", "interface">>,
         patterns |-> <<"tech_", "_technology", "digital_", "computer_", "_system">>],
     assessment |->
        [keywords |-> <<"assessment", "evaluation", "testing", "measurement",
                        "feedback", "grading", "performance", "outcome", "rubric">>,
         patterns |-> <<"assess_", "_assessment", "evaluat_", "_evaluation">>],
     cognitive |->
        [keywords |-> <<"cognitive", "thinking", "metacognition", "knowledge",
                        "understanding", "reasoning", "problem", "critical", "creative">>,
         patterns |-> <<"cognit_", "_thinking", "meta_", "_knowledge">>]]

\* line 451: any(keyword in co_tag_lower ...)
KeywordMatch(t, d) ==
    \E i \in 1..Len(domain_patterns[d].keywords) :
        Contains(t, domain_patterns[d].keywords[i])

\* lines 457-462: one pattern against the tag
PatternMatch(t, p) ==
    IF StartsWith(p, "_") THEN EndsWith(t, SubSeq(p, 2, Len(p)))
    ELSE EndsWith(p, "_") /\ StartsWith(t, SubSeq(p, 1, Len(p) - 1))

PatternMatches(t, d) ==
    Cardinality({i \in 1..Len(domain_patterns[d].patterns) :
                    PatternMatch(t, domain_patterns[d].patterns[i])})

\* how many times lines 451-462 add co_tag_count to domain_strengths[d]
\* for the co-tag t
DomainAdds(t, d) ==
    (IF KeywordMatch(t, d) THEN 1 ELSE 0) + PatternMatches(t, d)

\* DomainAdds of every tag of the vaults, computed once
DomainAddsOf ==
    AsFcn([t \in Range(TagUniverse) |->
        AsFcn([d \in Range(DomainNames) |-> DomainAdds(Lower(t), d)])])

\* lines 442-462 for one tag: domain -> accumulated strength
DomainStrengths(co, tag) ==
    LET cs == co.nb[tag]
        connected == {d \in Range(DomainNames) :
                        \E k \in 1..Len(cs) : DomainAddsOf[cs[k]][d] > 0}
    IN AsFcn([d \in connected |->
          SumSeq([k \in 1..Len(cs) |-> DomainAddsOf[cs[k]][d] * co.w[tag][cs[k]]])])

RECURSIVE SumFcn(_, _)
SumFcn(f, S) ==
    IF S = {} THEN 0
    ELSE LET x == CHOOSE y \in S : TRUE IN f[x] + SumFcn(f, S \ {x})

\* lines 465-477: the candidate of one tag; bridge_strength is the rational
\* num / den
BridgeCandidate(co, tl, tag) ==
    LET ds == DomainStrengths(co, tag)
    IN [tag |-> tag,
        domains_connected |-> DOMAIN ds,
        domain_count |-> Cardinality(DOMAIN ds),
        connection_count |-> Len(co.nb[tag]),
        uses |-> Uses(tl, tag),
        bridge_strength |-> [num |-> SumFcn(ds, DOMAIN ds),
                             den |-> Cardinality(DOMAIN ds)],
        domain_strengths |-> ds]

\* BetterBridge as it would be if the candidates were left unsorted
BridgeOrderKept(x, y) == FALSE
\* the sort key (domain_count, bridge_strength, uses), descending
BetterBridge(x, y) ==
    LET sx == x.bridge_strength.num * y.bridge_strength.den
        sy == y.bridge_strength.num * x.bridge_strength.den
    IN \/ x.domain_count > y.domain_count
       \/ x.domain_count = y.domain_count /\ sx > sy
       \/ x.domain_count = y.domain_count /\ sx = sy /\ x.uses > y.uses

FindBridgeTags(co, tl) ==
    LET ok == {i \in 1..Len(co.keys) :
                 /\ Uses(tl, co.keys[i]) >= MinBridgeUses
                 /\ Cardinality(DOMAIN DomainStrengths(co, co.keys[i])) >= MinBridgeDomains}
        ks == SelectIdx(co.keys, ok)
        cand == AsSeq([i \in 1..Len(ks) |-> BridgeCandidate(co, tl, ks[i])])
    IN Prefix(SortedSeq(cand, BetterBridge), TopBridges)

(***************************************************************************)
(* isolated tags (lines 330-335)                                           *)
(***************************************************************************)
IsolatedReads(tl) ==
    FilterSeq(tl.keys, {t \in Range(tl.keys) : Uses(tl, t) > MinIsolatedUses})

FindIsolatedTags(co, tl) ==
    FilterSeq(tl.keys,
        {t \in Range(tl.keys) :
            /\ Uses(tl, t) > MinIsolatedUses
            /\ Cardinality({c \in DOMAIN CoTags(co, t) : co.w[t][c] > 1}) < 2})

(***************************************************************************)
(* analyze_research_domains                                                *)
(***************************************************************************)
\* the table of lines 660-709, in its order
domains ==
    <<
      [name |-> "AI & Technology",
       keywords |-> <<"artificial_intelligence", "ai", "machine_learning", "ml",
                      "chatgpt", "generative_ai", "genai", "ai_ethics",
                      "ai_literacy", "large_language_models", "llm",
                      "deep_learning", "neural", "algorithm", "computational",
                      "automated", "intelligent", "robot", "nlp",
                      "computer_vision">>,
       patterns |-> <<"ai_", "_ai", "tech_", "_technology", "digital_",
                      "computer_">>],
      [name |-> "Education Levels",
       keywords |-> <<"higher_education", "k_12", "k12", "university",
                      "college", "school", "undergraduate", "graduate",
                      "doctoral", "phd", "elementary", "secondary", "primary",
                      "tertiary", "academic">>,
       patterns |-> <<"_education", "edu_", "academic_", "university_",
                      "school_">>],
      [name |-> "Research Methods",
       keywords |-> <<"systematic_review", "case_study", "ethnography",
                      "qualitative", "quantitative", "meta_analysis", "survey",
                      "interview", "observation", "experiment", "methodology",
                      "analysis", "data_collection", "sampling">>,
       patterns |-> <<"_method", "_analysis", "_study", "research_", "_research">>],
      [name |-> "Learning & Pedagogy",
       keywords |-> <<"collaborative_learning", "online_learning",
                      "game_based_learning", "personalized_learning",
                      "dialogic_learning", "pedagogy", "curriculum",
                      "instruction", "teaching", "assessment", "evaluation",
                      "blended", "flipped", "active_learning", "problem_based",
                      "project_based">>,
       patterns |-> <<"_learning", "teach_", "_pedagogy", "instruct_", "_based">>],
      [name |-> "Professional Development",
       keywords |-> <<"professional_development", "teacher_education",
                      "teacher_training", "faculty_development",
                      "staff_development", "continuing_education", "workshop",
                      "mentoring", "coaching", "competency", "skill">>,
       patterns |-> <<"professional_", "teacher_", "development_", "training_">>],
      [name |-> "Social & Digital",
       keywords |-> <<"social_media", "twitter", "facebook",
                      "online_communities", "digital_literacy", "virtual",
                      "remote", "network", "collaboration", "communication",
                      "interaction", "engagement", "participation">>,
       patterns |-> <<"social_", "online_", "digital_", "virtual_", "cyber_">>],
      [name |-> "Theory & Philosophy",
       keywords |-> <<"theory", "framework", "model", "paradigm",
                      "epistemology", "ontology", "constructivism",
                      "behaviorism", "cognitivism", "sociocultural", "critical",
                      "postmodern">>,
       patterns |-> <<"_theory", "theoretical_", "_model", "_framework">>],
      [name |-> "Assessment & Evaluation",
       keywords |-> <<"assessment", "evaluation", "testing", "grading",
                      "feedback", "formative", "summative", "rubric",
                      "portfolio", "exam", "measurement", "achievement",
                      "performance">>,
       patterns |-> <<"assess_", "_assessment", "evaluat_", "_evaluation",
                      "test_">>]
    >>

MinUncategorizedUses == 2
TopDomainTags == 8
TopCrossDomain == 10

\* lines 727-735: the domains (indices of the table) a tag is assigned to:
\* one of the keywords is part of the tag, or the tag starts or ends with a
\* pattern that neither starts nor ends with "_"
DomainsOf ==
    AsFcn([t \in Range(TagUniverse) |->
        {d \in 1..Len(domains) :
            \/ \E k \in 1..Len(domains[d].keywords) :
                  Contains(Lower(t), domains[d].keywords[k])
            \/ \E k \in 1..Len(domains[d].patterns) :
                  /\ ~StartsWith(domains[d].patterns[k], "_")
                  /\ ~EndsWith(domains[d].patterns[k], "_")
                  /\ \/ StartsWith(Lower(t), domains[d].patterns[k])
                     \/ EndsWith(Lower(t), domains[d].patterns[k])}])

\* the statistics of lines 741-765 for the list ts of tags; pct is the
\* percentage as the rational num / den
DomainStats(tl, ts, pct) ==
    [total_uses  |-> SumSeq([i \in 1..Len(ts) |-> Uses(tl, ts[i])]),
     unique_tags |-> Len(ts),
     top_tags    |-> Prefix(SortedSeq(ts, LAMBDA a, b : Uses(tl, a) > Uses(tl, b)),
                            TopDomainTags),
     percentage  |-> pct]

\* lines 720-785.  assigned: domain -> its tags in index order; unc: the
\* uncategorized tags; categorized: total_categorized_uses; first: the
\* domains in the order of their first assignment (the key order of
\* domain_assignments).  The rates are the rationals num / den.
ResearchDomains(tl, assigned, unc, categorized, first) ==
    [domain_stats |->
        AsSeq([d \in 1..Len(domains) |->
           DomainStats(tl, assigned[d],
               IF categorized > 0
               THEN [num |-> 100 * SumSeq([i \in 1..Len(assigned[d]) |->
                                             Uses(tl, assigned[d][i])]),
                     den |-> categorized]
               ELSE [num |-> 0, den |-> 1])]),
     uncategorized |-> DomainStats(tl, unc, [num |-> 0, den |-> 1]),
     \* the tags of more than one domain: in the order of their first
     \* assignment, the domains in the order of theirs, most domains first
     cross_domain_tags |->
        Prefix(SortedSeq(
                 FilterSeq(Dedup(Concat([k \in 1..Len(first) |-> assigned[first[k]]])),
                           {t \in Range(tl.keys) : Cardinality(DomainsOf[t]) > 1}),
                 LAMBDA a, b : Cardinality(DomainsOf[a]) > Cardinality(DomainsOf[b])),
               TopCrossDomain),
     total_tags_analyzed |-> Len(tl.keys),
     categorization_rate |->
        IF tl.keys # <<>>
        THEN [num |-> 100 * (Len(tl.keys) - Len(unc)), den |-> Len(tl.keys)]
        ELSE [num |-> 0, den |-> 1]]

AnalyzeResearchDomains(tl) ==
    ResearchDomains(tl,
        [d \in 1..Len(domains) |->
           FilterSeq(tl.keys, {t \in Range(tl.keys) : d \in DomainsOf[t]})],
        FilterSeq(tl.keys, {t \in Range(tl.keys) :
                              DomainsOf[t] = {} /\ Uses(tl, t) > MinUncategorizedUses}),
        SumSeq([i \in 1..Len(tl.keys) |->
                  Cardinality(DomainsOf[tl.keys[i]]) * Uses(tl, tl.keys[i])]),
        Dedup(Concat([i \in 1..Len(tl.keys) |->
                        FilterSeq([d \in 1..Len(domains) |-> d],
                                  DomainsOf[tl.keys[i]])])))

(***************************************************************************)
(* _suggest_standardizations                                               *)
(***************************************************************************)
\* self.tag_mappings: variant -> canonical form, in the order of the table
tag_mappings ==
    << <<"higher_ed", "higher_education">>, <<"higher-education", "higher_education">>,
       <<"university", "higher_education">>, <<"k12", "k-12">>, <<"k_12", "k-12">>,
       <<"ai", "artificial_intelligence">>, <<"ml", "machine_learning">>,
       <<"dl", "deep_learning">>, <<"llm", "large_language_models">>,
       <<"llms", "large_language_models">>, <<"genai", "generative_ai">>,
       <<"gen_ai", "generative_ai">>, <<"e-learning", "online_learning">>,
       <<"elearning", "online_learning">>, <<"distance_learning", "online_learning">>,
       <<"mooc", "moocs">>, <<"massive_open_online_courses", "moocs">>,
       <<"lit_review", "literature_review">>,
       <<"systematic_literature_review", "systematic_review">>,
       <<"meta_analysis", "meta-analysis">>, <<"case-study", "case_study">>,
       <<"ict", "information_communication_technology">>,
       <<"hci", "human_computer_interaction">>, <<"ux", "user_experience">>,
       <<"ui", "user_interface">>, <<"pd", "professional_development">>,
       <<"cpd", "continuing_professional_development">> >>

\* tag in self.tag_mappings
IsVariant(tag) == \E i \in 1..Len(tag_mappings) : tag_mappings[i][1] = tag

\* self.tag_mappings[tag]
StandardOf(tag) ==
    tag_mappings[CHOOSE i \in 1..Len(tag_mappings) : tag_mappings[i][1] = tag][2]

\* SuggestStandardizations as it would be if the lookup were made among the
\* canonical forms of the table instead of its keys
SuggestCanonicalKeys(tl) ==
    LET canon == {tag_mappings[i][2] : i \in 1..Len(tag_mappings)}
        ks == FilterSeq(tl.keys, {t \in Range(tl.keys) : Lower(t) \in canon})
    IN AsSeq([i \in 1..Len(ks) |->
          [current |-> ks[i], suggested |-> ks[i], reason |-> "standardization",
           current_uses |-> Uses(tl, ks[i]), standard_uses |-> 0]])

\* SuggestStandardizations as it would be without the else branch of lines
\* 172-179 (a variant is reported only when its canonical form is indexed)
SuggestMergesOnly(tl) ==
    LET ks == FilterSeq(tl.keys, {t \in Range(tl.keys) :
                 IsVariant(Lower(t)) /\ StandardOf(Lower(t)) \in Range(tl.keys)})
    IN AsSeq([i \in 1..Len(ks) |->
          [current |-> ks[i], suggested |-> StandardOf(Lower(ks[i])),
           reason |-> "variant_exists", current_uses |-> Uses(tl, ks[i]),
           standard_uses |-> Uses(tl, StandardOf(Lower(ks[i])))]])

\* the suggestions in index order; standard_uses is 0 when the suggestion
\* has no such field (reason standardization)
SuggestStandardizations(tl) ==
    LET ks == FilterSeq(tl.keys, {t \in Range(tl.keys) : IsVariant(Lower(t))})
    IN AsSeq([i \in 1..Len(ks) |->
          LET std == StandardOf(Lower(ks[i]))
          IN IF std \in Range(tl.keys)
             THEN [current |-> ks[i], suggested |-> std, reason |-> "variant_exists",
                   current_uses |-> Uses(tl, ks[i]), standard_uses |-> Uses(tl, std)]
             ELSE [current |-> ks[i], suggested |-> std, reason |-> "standardization",
                   current_uses |-> Uses(tl, ks[i]), standard_uses |-> 0]])

(***************************************************************************)
(* analyze_temporal_trends                                                 *)
(***************************************************************************)
MinYear == 1990
RecentYears == 2
MinTrendEntries == 3
MinTrendUses == 5
TopTrends == 15
TopSteady == 10

\* the year of a file counts when its name has one in 1990..current_year
YearCounts(year) == year # NoYear /\ year >= MinYear /\ year <= CurrentYear

\* the hashtags of a file in the order they are read: how = "list" reads
\* them as written (calculate_tag_quality_metrics); otherwise the set of
\* the hashtags as written is iterated in the hash order how
WrittenTags(f, how) ==
    IF how = "list" THEN f.hashtags ELSE SetToSeq(Range(f.hashtags), how)

\* lines 520-523: every tag read is lower-cased and, unless it is empty or
\* ends with "_", recorded with the year
YearPairs(ws, year) ==
    SelectIdx([k \in 1..Len(ws) |-> <<Lower(ws[k]), year>>],
              {k \in 1..Len(ws) :
                 Lower(ws[k]) # "" /\ ~EndsWith(Lower(ws[k]), "_")})

FileYears(f, how) ==
    IF YearCounts(f.year) THEN YearPairs(WrittenTags(f, how), f.year) ELSE <<>>

\* the defaultdict(list) built by the appends of entries
YearsByTag(entries) ==
    [keys  |-> Dedup([i \in 1..Len(entries) |-> entries[i][1]]),
     years |-> AsFcn([t \in {entries[i][1] : i \in 1..Len(entries)} |->
                        ValuesOfKey(entries, t)])]

\* tag_years: tag -> list of years, keys in insertion order
TagYears(v, order, how) ==
    YearsByTag(Concat([i \in 1..Len(order) |-> FileYears(v[order[i]], how)]))

SetMax(S) == CHOOSE x \in S : \A y \in S : y <= x
SetMin(S) == CHOOSE x \in S : \A y \in S : x <= y

\* years_counter[y]
CountOf(years, y) == Cardinality({i \in 1..Len(years) : years[i] = y})

\* max(years_counter.items(), key=count): the first year, in the order
\* first of the first appearances, with the largest count
PeakYear(years, first) ==
    first[CHOOSE i \in 1..Len(first) :
             /\ \A j \in 1..Len(first) :
                   CountOf(years, first[j]) <= CountOf(years, first[i])
             /\ \A j \in 1..(i - 1) :
                   CountOf(years, first[j]) < CountOf(years, first[i])]

Ascending(a, b) == a < b

\* lines 617-622: the differences of more than one year between
\* consecutive active years
Gaps(uniq) ==
    SelectIdx([i \in 1..(Len(uniq) - 1) |-> uniq[i + 1] - uniq[i]],
              {i \in 1..(Len(uniq) - 1) : uniq[i + 1] - uniq[i] > 1})

\* years: the list of a tag; first: its distinct years in order of first
\* appearance; sorted: sorted(years); uniq: sorted(set(years)); n: the
\* number of distinct years
MetricsOf(years, first, sorted, uniq, n) ==
    [total_uses   |-> Len(years),
     years_active |-> n,
     recent_uses  |-> Cardinality({i \in 1..Len(years) :
                                     years[i] >= CurrentYear - RecentYears}),
     first_year   |-> uniq[1],
     last_year    |-> uniq[n],
     year_span    |-> uniq[n] - uniq[1] + 1,
     peak_year    |-> PeakYear(years, first),
     peak_count   |-> CountOf(years, PeakYear(years, first)),
     \* years_growth of lines 560-566: its sum and its length
     growth_sum   |-> SumSeq([i \in 1..(n - 1) |-> sorted[i + 1] - sorted[i]]),
     growth_len   |-> n - 1,
     \* sum over the years of (count - total/unique)^2, times unique^2
     spread       |-> SumSeq([i \in 1..n |->
                         (n * CountOf(years, first[i]) - Len(years))
                       * (n * CountOf(years, first[i]) - Len(years))]),
     gaps         |-> Gaps(uniq)]

\* lines 538-576 for one non-empty list of years
TrendMetrics(years) ==
    MetricsOf(AsSeq(years), Dedup(years), SortedSeq(years, Ascending),
              SortedSeq(Dedup(years), Ascending), Cardinality(Range(years)))

\* the four tests of lines 558, 581, 598 and 616 on the metrics m:
\* recent_ratio > 0.7, < 0.3, in [0.3, 0.7]; activity_density > 0.5, < 0.5
IsEmerging(m) ==
    10 * m.recent_uses > 7 * m.total_uses /\ m.last_year >= CurrentYear - RecentYears
IsDeclining(m) ==
    10 * m.recent_uses < 3 * m.total_uses /\ m.peak_year < CurrentYear - 3
\* IsStable with the two bounds of recent_ratio excluded
IsStableExclusive(m) ==
    /\ 10 * m.recent_uses > 3 * m.total_uses
    /\ 10 * m.recent_uses < 7 * m.total_uses
    /\ 2 * m.years_active > m.year_span
IsStable(m) ==
    /\ 10 * m.recent_uses >= 3 * m.total_uses
    /\ 10 * m.recent_uses <= 7 * m.total_uses
    /\ 2 * m.years_active > m.year_span
IsPeriodic(m) ==
    m.years_active >= 3 /\ 2 * m.years_active < m.year_span /\ m.gaps # <<>>

\* TrendCategories as it would be with four independent "if" statements
TrendCategoriesIndependent(m) ==
    IF m.total_uses < MinTrendUses THEN {}
    ELSE {c \in {"emerging", "declining", "stable", "periodic"} :
            \/ c = "emerging" /\ IsEmerging(m)
            \/ c = "declining" /\ IsDeclining(m)
            \/ c = "stable" /\ IsStable(m)
            \/ c = "periodic" /\ IsPeriodic(m)}

\* the lists the if / elif chain of lines 556-634 appends the tag to
TrendCategories(m) ==
    IF m.total_uses < MinTrendUses THEN {}
    ELSE IF IsEmerging(m) THEN {"emerging"}
    ELSE IF IsDeclining(m) THEN {"declining"}
    ELSE IF IsStable(m) THEN {"stable"}
    ELSE IF IsPeriodic(m) THEN {"periodic"}
    ELSE {}

\* the first component of the sort key of a list, as the rational num / den
TrendScore(c, m) ==
    IF c = "emerging"
    THEN \* recent_ratio * (1 + 1 / (avg_growth + 1))
         LET n == IF m.growth_len = 0 THEN 1 ELSE m.growth_len
         IN [num |-> m.recent_uses * (m.growth_sum + 2 * n),
             den |-> m.total_uses * (m.growth_sum + n)]
    ELSE IF c = "declining"
    THEN [num |-> m.total_uses - m.recent_uses, den |-> m.total_uses]
    ELSE IF c = "stable"
    THEN \* 1 / (1 + variance)
         LET u3 == m.years_active * m.years_active * m.years_active
         IN [num |-> u3, den |-> u3 + m.spread]
    ELSE [num |-> m.total_uses, den |-> 1]

\* the second component of the sort key (0 where the key has one component)
TrendTie(c, m) ==
    IF c = "emerging" THEN m.recent_uses
    ELSE IF c = "declining" THEN CurrentYear - m.peak_year
    ELSE 0

HigherTrend(x, y) ==
    \/ x.score.num * y.score.den > y.score.num * x.score.den
    \/ x.score.num * y.score.den = y.score.num * x.score.den /\ x.tie > y.tie

\* the metrics of every tag of tag_years
MetricsTable(ty) ==
    AsFcn([t \in Range(ty.keys) |-> TrendMetrics(ty.years[t])])

\* lines 535-536 and 556-634: the lists every tag is appended to
CategoryTable(ty, ms) ==
    AsFcn([t \in Range(ty.keys) |->
             IF Len(ty.years[t]) < MinTrendEntries THEN {}
             ELSE TrendCategories(ms[t])])

TrendEntries(ks, ms, c) ==
    AsSeq([i \in 1..Len(ks) |->
             [tag |-> ks[i], metrics |-> ms[ks[i]],
              score |-> TrendScore(c, ms[ks[i]]), tie |-> TrendTie(c, ms[ks[i]])]])

\* the list of the category c: its tags in the order of tag_years, sorted
\* by the key of the list and cut to top
TrendList(ty, ms, cats, c, top) ==
    Prefix(SortedSeq(TrendEntries(FilterSeq(ty.keys,
                                            {t \in Range(ty.keys) : c \in cats[t]}),
                                  ms, c),
                     HigherTrend),
           top)

TrendLists(ty, ms, cats) ==
    [emerging  |-> TrendList(ty, ms, cats, "emerging", TopTrends),
     declining |-> TrendList(ty, ms, cats, "declining", TopTrends),
     stable    |-> TrendList(ty, ms, cats, "stable", TopSteady),
     periodic  |-> TrendList(ty, ms, cats, "periodic", TopSteady),
     yearly_distribution |-> ty]

TrendsOfMetrics(ty, ms) == TrendLists(ty, ms, CategoryTable(ty, ms))

TrendsOfYears(ty) == TrendsOfMetrics(ty, MetricsTable(ty))

AnalyzeTemporalTrends(v, order, h) == TrendsOfYears(TagYears(v, order, h))

\* TagDivisors as it would be without the fallback of line 566
TagDivisorsNoFallback(m) ==
    {m.total_uses}
      \cup (IF m.year_span > 0 THEN {m.year_span} ELSE {})
      \cup (IF "emerging" \in TrendCategories(m)
            THEN {m.growth_len, m.growth_sum + m.growth_len}
            ELSE {})
      \cup (IF "stable" \in TrendCategories(m)
            THEN {m.years_active,
                  m.years_active * m.years_active * m.years_active + m.spread}
            ELSE {})
      \cup (IF "periodic" \in TrendCategories(m) THEN {Len(m.gaps)} ELSE {})
\* the numbers lines 545-625 divide by for a tag of metrics m: total_count
\* (545), year_span unless it is 0 (549), len(years_growth) unless the list
\* is empty (566), avg_growth + 1 (567, as its numerator over
\* len(years_growth)), unique_years and 1 + variance (601-602, the latter as
\* its numerator over unique_years^3), len(gaps) (625, under "if gaps")
TagDivisors(m) ==
    {m.total_uses}
      \cup (IF m.year_span > 0 THEN {m.year_span} ELSE {})
      \cup (IF "emerging" \in TrendCategories(m)
            THEN IF m.growth_len > 0
                 THEN {m.growth_len, m.growth_sum + m.growth_len}
                 ELSE {1}
            ELSE {})
      \cup (IF "stable" \in TrendCategories(m)
            THEN {m.years_active,
                  m.years_active * m.years_active * m.years_active + m.spread}
            ELSE {})
      \cup (IF "periodic" \in TrendCategories(m) THEN {Len(m.gaps)} ELSE {})

\* every number analyze_temporal_trends divides by (the tags that pass
\* line 535)
TemporalDivisors(ty, ms) ==
    UNION {TagDivisors(ms[t]) :
             t \in {u \in Range(ty.keys) : Len(ty.years[u]) >= MinTrendEntries}}

(***************************************************************************)
(* find_semantic_duplicates                                                *)
(***************************************************************************)
StemSuffixes == <<"ing", "ed", "er", "est", "ly", "tion", "ment", "ness", "ity">>

\* lines 920-927: the word without the first suffix of the list that it
\* ends with and that leaves more than 3 characters
RootOf(word) ==
    LET hit == {i \in 1..Len(StemSuffixes) :
                  /\ EndsWith(word, StemSuffixes[i])
                  /\ Len(word) - Len(StemSuffixes[i]) > 3}
    IN IF hit = {} THEN word
       ELSE SubSeq(word, 1, Len(word) - Len(StemSuffixes[SetMin(hit)]))

\* lines 907-935: the stems the tag is filed under
StemKeys(tag) ==
    LET words == Split(tag)
        \* max(words, key=len): the first of the longest words
        main  == words[CHOOSE i \in 1..Len(words) :
                    /\ \A j \in 1..Len(words) : Len(words[j]) <= Len(words[i])
                    /\ \A j \in 1..(i - 1) : Len(words[j]) < Len(words[i])]
        long  == {i \in 1..Len(words) : Len(words[i]) > 4}
        best  == IF long = {} THEN main ELSE RootOf(words[SetMin(long)])
    IN <<best>> \o (IF main # best /\ Len(main) > 3 THEN <<main>> ELSE <<>>)

\* the synonyms table: concept followed by its synonyms
synonyms ==
    << <<"education", "teaching", "learning", "pedagogy", "instruction", "educational",
         "didactic", "scholastic", "academic", "schooling">>,
       <<"assessment", "evaluation", "testing", "grading", "examination", "appraisal",
         "measurement", "scoring", "judgment", "review">>,
       <<"technology", "tech", "digital", "computer", "it", "technological",
         "computational", "electronic", "software", "hardware">>,
       <<"research", "study", "investigation", "analysis", "inquiry", "examination",
         "exploration", "survey", "review", "experiment">>,
       <<"professional", "teacher", "educator", "faculty", "instructor", "practitioner",
         "expert", "specialist", "mentor", "coach">>,
       <<"development", "training", "growth", "improvement", "advancement", "progress",
         "evolution", "enhancement", "cultivation", "formation">>,
       <<"online", "virtual", "remote", "distance", "digital", "web", "internet",
         "cyber", "electronic", "networked">>,
       <<"student", "learner", "pupil", "scholar", "trainee", "apprentice",
         "disciple", "mentee", "participant">>,
       <<"artificial", "ai", "machine", "automated", "synthetic", "computational",
         "algorithmic", "robotic", "intelligent">>,
       <<"collaborative", "cooperative", "joint", "shared", "collective", "team",
         "group", "mutual", "participatory">>,
       <<"cognitive", "thinking", "mental", "intellectual", "reasoning", "thought",
         "mind", "brain", "psychological">>,
       <<"knowledge", "understanding", "comprehension", "awareness", "expertise",
         "wisdom", "insight", "information", "learning">> >>

\* lines 984-992: the concepts a tag is filed under, in table order (a term
\* matches when it is a substring of one of the words of the tag)
SynonymConcepts(tag) ==
    LET words == Split(Lower(tag))
        hit   == {c \in 1..Len(synonyms) :
                    \E k \in 1..Len(synonyms[c]), w \in 1..Len(words) :
                        Contains(words[w], synonyms[c][k])}
    IN SelectIdx([c \in 1..Len(synonyms) |-> synonyms[c][1]], hit)

\* lines 1016-1040: the prefixes, suffixes and compound keys of a tag
PatternKeys(tag) ==
    LET n     == Len(tag)
        words == Split(tag)
        m     == Len(words)
        head2 == words[1] \o "_" \o words[2]
        tail2 == words[m - 1] \o "_" \o words[m]
    IN [prefixes  |-> IF n > 8
                      THEN <<SubSeq(tag, 1, 5), SubSeq(tag, 1, 6), SubSeq(tag, 1, 7)>>
                      ELSE <<>>,
        suffixes  |-> IF n > 7
                      THEN <<SubSeq(tag, n - 3, n), SubSeq(tag, n - 4, n),
                             SubSeq(tag, n - 5, n)>>
                      ELSE <<>>,
        compounds |-> IF m >= 2
                      THEN (IF Len(head2) > 4 THEN <<head2>> ELSE <<>>)
                           \o (IF Len(tail2) > 4 THEN <<tail2>> ELSE <<>>)
                      ELSE <<>>]

\* the keys of every tag of the vaults, computed once
LexTable ==
    AsFcn([t \in {Lower(TagUniverse[i]) : i \in 1..Len(TagUniverse)} |->
        [stems     |-> StemKeys(t),
         concepts  |-> SynonymConcepts(t),
         prefixes  |-> PatternKeys(t).prefixes,
         suffixes  |-> PatternKeys(t).suffixes,
         compounds |-> PatternKeys(t).compounds]])

\* the (key, tag) pairs of one tag, in the order of its keys
KeyPairs(row, tag) == AsSeq([k \in 1..Len(row) |-> <<row[k], tag>>])

\* the (key, tag) pairs of the tags, in the order in which the loop over
\* the tags appends tag to the list of key
KeyEntries(tags, kind) ==
    Concat([i \in 1..Len(tags) |-> KeyPairs(LexTable[tags[i]][kind], tags[i])])

\* the defaultdict(list) that the appends of entries build: its keys in
\* insertion order and the list of each key
GroupEntries(entries) ==
    [keys |-> Dedup([i \in 1..Len(entries) |-> entries[i][1]]),
     tags |-> AsFcn([g \in {entries[i][1] : i \in 1..Len(entries)} |->
                        ValuesOfKey(entries, g)])]

\* a defaultdict(list) filled by appending every tag of tags, in order, to
\* each of its keys of the given kind
GroupBy(tags, kind) == GroupEntries(KeyEntries(tags, kind))

SumUsesOf(tl, tags) == SumSeq([i \in 1..Len(tags) |-> Uses(tl, tags[i])])

\* lines 938-949, from the i-th stem on: acc = [groups, processed]
RECURSIVE StemGroups(_, _, _, _, _)
StemGroups(sg, tl, h, i, acc) ==
    IF i > Len(sg.keys) THEN acc
    ELSE LET stem   == sg.keys[i]
             unique == SetToSeq(Range(sg.tags[stem]) \ acc.processed, h)
         IN IF Len(sg.tags[stem]) > 1 /\ Len(stem) > 2 /\ Len(unique) > 1
            THEN StemGroups(sg, tl, h, i + 1,
                    [groups |-> Append(acc.groups,
                                   [type |-> "stem_match", key |-> stem,
                                    tags |-> unique,
                                    total_uses |-> SumUsesOf(tl, unique),
                                    confidence |-> 80]),
                     processed |-> acc.processed \cup Range(unique)])
            ELSE StemGroups(sg, tl, h, i + 1, acc)

\* one group of a kind: its tags are those of the key in hash order, cut
\* to cap
GroupOf(tl, h, tags, key, spec) ==
    [type |-> spec.type, key |-> key,
     tags |-> Prefix(SetToSeq(Range(tags), h), spec.cap),
     total_uses |-> SumUsesOf(tl, Prefix(SetToSeq(Range(tags), h), spec.cap)),
     confidence |-> spec.confidence]

\* the keys of the dict gb of minKey characters or more that have more
\* than minSize distinct tags
GroupKeys(gb, spec) ==
    SelectIdx(gb.keys, {i \in 1..Len(gb.keys) :
                 /\ Cardinality(Range(gb.tags[gb.keys[i]])) > spec.minSize
                 /\ Len(gb.keys[i]) >= spec.minKey})

\* the groups of the keys ks of the dict gb
GroupsAt(tl, h, gb, ks, spec) ==
    AsSeq([k \in 1..Len(ks) |-> GroupOf(tl, h, gb.tags[ks[k]], ks[k], spec)])

GroupsOf(tl, h, gb, spec) == GroupsAt(tl, h, gb, GroupKeys(gb, spec), spec)

\* lines 995-1004 and 1043-1074: the groups of one kind among the tags left,
\* each with more than minSize tags, a key of minKey characters or more, and
\* its tag list cut to cap
PatternGroups(tl, h, left, kind, spec) ==
    GroupsOf(tl, h, GroupBy(left, kind), spec)

\* HigherGroup as it would be if the sort key were the confidence alone
HigherConfidence(x, y) == x.confidence > y.confidence

\* the sort key (confidence, total_uses), descending
HigherGroup(x, y) ==
    \/ x.confidence > y.confidence
    \/ x.confidence = y.confidence /\ x.total_uses > y.total_uses

\* MergeGroups as it would be if an accepted group kept all of its tags
RECURSIVE MergeGroupsKeepTags(_, _, _, _)
MergeGroupsKeepTags(groups, tl, final, seen) ==
    IF groups = <<>> THEN final
    ELSE LET g == Head(groups)
             new_tags == FilterSeq(g.tags, Range(g.tags) \ seen)
         IN IF 2 * Len(new_tags) >= Len(g.tags)
            THEN MergeGroupsKeepTags(Tail(groups), tl, Append(final, g),
                                     seen \cup Range(new_tags))
            ELSE MergeGroupsKeepTags(Tail(groups), tl, final, seen)

\* MergeGroups as it would be if a group needed more than half of its tags
\* to be new
RECURSIVE MergeGroupsMoreThanHalf(_, _, _, _)
MergeGroupsMoreThanHalf(groups, tl, final, seen) ==
    IF groups = <<>> THEN final
    ELSE LET g == Head(groups)
             new_tags == FilterSeq(g.tags, Range(g.tags) \ seen)
         IN IF 2 * Len(new_tags) > Len(g.tags)
            THEN MergeGroupsMoreThanHalf(Tail(groups), tl,
                    Append(final, [g EXCEPT !.tags = new_tags,
                                            !.total_uses = SumUsesOf(tl, new_tags)]),
                    seen \cup Range(new_tags))
            ELSE MergeGroupsMoreThanHalf(Tail(groups), tl, final, seen)

\* lines 1080-1090: the groups kept, each with the tags not seen before
RECURSIVE MergeGroups(_, _, _, _)
MergeGroups(groups, tl, final, seen) ==
    IF groups = <<>> THEN final
    ELSE LET g == Head(groups)
             new_tags == FilterSeq(g.tags, Range(g.tags) \ seen)
         IN IF 2 * Len(new_tags) >= Len(g.tags)
            THEN MergeGroups(Tail(groups), tl,
                    Append(final, [g EXCEPT !.tags = new_tags,
                                            !.total_uses = SumUsesOf(tl, new_tags)]),
                    seen \cup Range(new_tags))
            ELSE MergeGroups(Tail(groups), tl, final, seen)

TopGroups == 20

\* lines 979-1074: the synonym, prefix, suffix and compound groups among
\* the tags left by the stem groups
LexicalGroups(tl, h, left) ==
    PatternGroups(tl, h, left, "concepts",
         [type |-> "synonym_group", minSize |-> 1, minKey |-> 0, cap |-> 10,
          confidence |-> 70])
    \o PatternGroups(tl, h, left, "prefixes",
         [type |-> "common_prefix", minSize |-> 2, minKey |-> 5, cap |-> 8,
          confidence |-> 60])
    \o PatternGroups(tl, h, left, "suffixes",
         [type |-> "common_suffix", minSize |-> 2, minKey |-> 4, cap |-> 8,
          confidence |-> 60])
    \o PatternGroups(tl, h, left, "compounds",
         [type |-> "compound_pattern", minSize |-> 2, minKey |-> 0, cap |-> 8,
          confidence |-> 65])

\* the stem groups followed by the groups among the tags they left
AfterStems(tl, h, stems) ==
    stems.groups
    \o LexicalGroups(tl, h, FilterSeq(tl.keys, Range(tl.keys) \ stems.processed))

\* the candidate groups of lines 897-1074 in the order they are appended
CandidateGroups(tl, h) ==
    AfterStems(tl, h, StemGroups(GroupBy(tl.keys, "stems"), tl, h, 1,
                                 [groups |-> <<>>, processed |-> {}]))

FindSemanticDuplicates(tl, h) ==
    Prefix(MergeGroups(SortedSeq(CandidateGroups(tl, h), HigherGroup), tl, <<>>, {}),
           TopGroups)

(***************************************************************************)
(* analyze_tags_to_remove                                                  *)
(***************************************************************************)
generic_words ==
    {"the", "and", "or", "in", "on", "at", "to", "for", "of", "with",
     "new", "old", "good", "bad", "big", "small", "more", "less",
     "yes", "no", "true", "false", "article", "paper", "study", "research"}

MinTagLength == 3
MaxTagLength == 30

\* tag.isdigit() or re.match(r'^[0-9_]+$', tag)
IsMalformed(tag) ==
    \/ IsDigit(tag)
    \/ Len(tag) > 0 /\ \A i \in 1..Len(tag) : CharAt(tag, i) \in Digits \cup {"_"}

\* RemovalCategory as it would be with the malformed and too_specific tests
\* ahead of the too_generic test
RemovalCategoryGenericLast(tl, tag) ==
    IF IsMalformed(tag) THEN "malformed"
    ELSE IF Uses(tl, tag) = 1 /\ Len(tag) > MaxTagLength THEN "too_specific"
    ELSE IF tag \in generic_words \/ Len(tag) < MinTagLength THEN "too_generic"
    ELSE IF Uses(tl, tag) <= 2 /\ Uses(tl, tag) = 1 THEN "low_value"
    ELSE "none"

\* the if / elif chain of lines 1243-1282: the list the tag is appended to
RemovalCategory(tl, tag) ==
    IF tag \in generic_words \/ Len(tag) < MinTagLength THEN "too_generic"
    ELSE IF Uses(tl, tag) = 1 /\ Len(tag) > MaxTagLength THEN "too_specific"
    ELSE IF IsMalformed(tag) THEN "malformed"
    ELSE IF Uses(tl, tag) <= 2 /\ Uses(tl, tag) = 1 THEN "low_value"
    ELSE "none"

\* lines 1284-1299: of every stem_match and common_prefix group, all tags
\* but the most used one
RedundantTagsUnsorted(tl, groups) ==
    LET rest(g) ==
            AsSeq([i \in 1..(Len(g.tags) - 1) |->
                  [tag |-> g.tags[i + 1], uses |-> Uses(tl, g.tags[i + 1]),
                   kept |-> g.tags[1]]])
    IN Concat([i \in 1..Len(groups) |->
          IF groups[i].type \in {"stem_match", "common_prefix"}
          THEN rest(groups[i]) ELSE <<>>])

RedundantTags(tl, groups) ==
    LET rest(g) ==
            LET by_use == SortedSeq(g.tags, LAMBDA a, b : Uses(tl, a) > Uses(tl, b))
            IN AsSeq([i \in 1..(Len(by_use) - 1) |->
                  [tag |-> by_use[i + 1], uses |-> Uses(tl, by_use[i + 1]),
                   kept |-> by_use[1]]])
    IN Concat([i \in 1..Len(groups) |->
          IF groups[i].type \in {"stem_match", "common_prefix"}
          THEN rest(groups[i]) ELSE <<>>])

AnalyzeTagsToRemove(tl, h) ==
    LET cat == AsFcn([t \in Range(tl.keys) |-> RemovalCategory(tl, t)])
        list(c) ==
            LET ks == FilterSeq(tl.keys, {t \in Range(tl.keys) : cat[t] = c})
            IN AsSeq([i \in 1..Len(ks) |-> [tag |-> ks[i], uses |-> Uses(tl, ks[i])]])
    IN [too_generic  |-> list("too_generic"),
        too_specific |-> list("too_specific"),
        redundant    |-> RedundantTags(tl, FindSemanticDuplicates(tl, h)),
        malformed    |-> list("malformed"),
        obsolete     |-> <<>>,
        low_value    |-> list("low_value")]

RemovalCategories ==
    <<"too_generic", "too_specific", "redundant", "malformed", "obsolete",
      "low_value">>

\* lines 1302-1306: the statistics of the candidate lists c
RemovalStatistics(c) ==
    [total_tags_to_remove |->
        SumSeq([k \in 1..Len(RemovalCategories) |-> Len(c[RemovalCategories[k]])]),
     total_uses_affected |->
        SumSeq([k \in 1..Len(RemovalCategories) |->
           SumSeq([i \in 1..Len(c[RemovalCategories[k]]) |->
              c[RemovalCategories[k]][i].uses])])]

(***************************************************************************)
(* calculate_tag_quality_metrics                                           *)
(***************************************************************************)
generic_terms == {"research", "study", "paper", "article", "new", "good", "bad", "thing"}

FullUsage == 10
FullDiversity == 20
MinClearLength == 5
MaxClearWords == 3

\* The scores are floats in the code and exact rationals here.  The two can
\* differ only where the exact value sits on a boundary, where the binary
\* error of the float decides.

\* round(num / den, digits) as a multiple of 1 / scale; a value exactly
\* halfway between two multiples is taken up
RoundTo(num, den, scale) == (2 * scale * num + den) \div (2 * den)

\* round(num / den, 3) in thousandths
RoundMilli(num, den) == RoundTo(num, den, 1000)

\* lines 1420-1429: the category of the overall score num / den
QualityCategory(q) ==
    IF 10 * q.num >= 7 * q.den THEN "high"
    ELSE IF 10 * q.num >= 5 * q.den THEN "medium"
    ELSE "low"

\* OrderedPairCount as it would be if the loop incremented both directions
\* as lines 296-297 do
OrderedPairCountBothWays(s, a, b) ==
    LET pa == {i \in 1..Len(s) : s[i] = a}
        pb == {j \in 1..Len(s) : s[j] = b}
    IN 2 * Cardinality({ij \in pa \X pb : s[ij[1]] # s[ij[2]]})

\* how often the loops of lines 1332-1336 over the tags s of one file reach
\* line 1336 with (tag1, tag2) = (a, b)
OrderedPairCount(s, a, b) ==
    LET pa == {i \in 1..Len(s) : s[i] = a}
        pb == {j \in 1..Len(s) : s[j] = b}
    IN Cardinality({ij \in pa \X pb : s[ij[1]] # s[ij[2]]})

\* lines 1324-1336: the co_occurrences that calculate_tag_quality_metrics
\* builds for itself, as the count of every ordered pair of distinct tags
QualityCoOccurrences(tl, h) ==
    LET ft   == FileTags(tl)
        fk   == FileTagsKeys(tl)
        iter == AsSeq([i \in 1..Len(fk) |-> SetToSeq(ft[fk[i]], h)])
    IN AsFcn([a \in Range(tl.keys) |->
          AsFcn([b \in Range(tl.keys) \ {a} |->
             SumSeq([i \in 1..Len(fk) |-> OrderedPairCount(iter[i], a, b)])])])

\* lines 1417-1436: the recommendations of a tag of category cat; usage in
\* tenths, diversity in twentieths, clarity in halves, semantic in tenths.
\* RecommendationsAllReasons gives the low branch the test on the usage
\* score as well.
RecommendationsAllReasons(cat, usage, diversity, clarity, semantic_score, usage_count) ==
    IF cat = "high" THEN <<"Promote as standard tag">>
    ELSE IF cat = "medium"
    THEN (IF usage < 3 THEN <<"Increase usage across more articles">> ELSE <<>>)
         \o (IF 10 * diversity < 3 * FullDiversity
             THEN <<"Use with more diverse tags">> ELSE <<>>)
    ELSE (IF usage < 3 THEN <<"Increase usage across more articles">> ELSE <<>>)
         \o (IF clarity < 1 THEN <<"Consider renaming for clarity">> ELSE <<>>)
         \o (IF semantic_score < 5 THEN <<"Too generic or too specific">> ELSE <<>>)
         \o (IF usage_count < 3
             THEN <<"Consider removing due to low usage">> ELSE <<>>)

Recommendations(cat, usage, diversity, clarity, semantic_score, usage_count) ==
    IF cat = "high" THEN <<"Promote as standard tag">>
    ELSE IF cat = "medium"
    THEN (IF usage < 3 THEN <<"Increase usage across more articles">> ELSE <<>>)
         \o (IF 10 * diversity < 3 * FullDiversity
             THEN <<"Use with more diverse tags">> ELSE <<>>)
    ELSE (IF clarity < 1 THEN <<"Consider renaming for clarity">> ELSE <<>>)
         \o (IF semantic_score < 5 THEN <<"Too generic or too specific">> ELSE <<>>)
         \o (IF usage_count < 3
             THEN <<"Consider removing due to low usage">> ELSE <<>>)

\* lines 1363-1438 for one tag.  co: the co_occurrences of lines 1324-1336;
\* co_tag_count: the tags counted more than once with it; years: tag_years
\* of the tag (<<>> when it has none).
\* usage is in tenths, diversity in twentieths, clarity in halves, semantic
\* in tenths, temporal and overall are the rationals num / den, and
\* overall_score, the score reported, is in thousandths.
QualityOf(tl, co, years, tag) ==
    LET usage_count  == Uses(tl, tag)
        co_tag_count == Cardinality({t \in DOMAIN co[tag] : co[tag][t] > 1})
        usage     == Min2(usage_count, FullUsage)
        diversity == Min2(co_tag_count, FullDiversity)
        clarity   == (IF Len(tag) >= MinClearLength /\ Len(tag) <= MaxTagLength
                      THEN 1 ELSE 0)
                   + (IF Len(Split(tag)) >= 1 /\ Len(Split(tag)) <= MaxClearWords
                      THEN 1 ELSE 0)
        ys        == Range(years)
        temporal_score == IF Len(years) >= MinTrendEntries
                     THEN [num |-> Cardinality(ys),
                           den |-> SetMax(ys) - SetMin(ys) + 1]
                     ELSE [num |-> 0, den |-> 1]
        semantic_score == IF tag \in generic_terms THEN 3
                     ELSE IF usage_count = 1 THEN 5
                     ELSE IF Contains(tag, "_and_") \/ Contains(tag, "_or_") THEN 7
                     ELSE 10
        \* 0.25 usage/10 + 0.25 diversity/20 + 0.20 clarity/2
        \*   + 0.15 temporal + 0.15 semantic/10, over 400 * temporal_score.den
        overall   == [num |-> temporal_score.den * (10 * usage + 5 * diversity
                                              + 40 * clarity + 6 * semantic_score)
                              + 60 * temporal_score.num,
                      den |-> 400 * temporal_score.den]
    IN [usage_count |-> usage_count, co_tag_count |-> co_tag_count,
        usage |-> usage, diversity |-> diversity, clarity |-> clarity,
        temporal |-> temporal_score, semantic |-> semantic_score,
        overall |-> overall,
        overall_score |-> RoundMilli(overall.num, overall.den),
        quality_category |-> QualityCategory(overall),
        recommendations |-> Recommendations(QualityCategory(overall), usage,
                               diversity, clarity, semantic_score, usage_count)]

\* tag_quality: the tags sorted by the reported overall score, descending,
\* and the metrics of each
CalculateTagQualityMetrics(v, order, tl, h) ==
    LET ft == FileTags(tl)
        co == QualityCoOccurrences(tl, h)
        ty == TagYears(v, order, "list")
        ks == FilterSeq(tl.keys, {t \in Range(tl.keys) : ~EndsWith(t, "_")})
        of == AsFcn([t \in Range(ks) |->
                QualityOf(tl, co, IF t \in Range(ty.keys) THEN ty.years[t] ELSE <<>>, t)])
        total_tags == Len(tl.keys)
        total_files == Cardinality(DOMAIN ft)
        total_tag_uses == SumSeq([i \in 1..Len(tl.keys) |-> Uses(tl, tl.keys[i])])
    IN [keys |-> SortedSeq(ks, LAMBDA a, b : of[a].overall_score > of[b].overall_score),
        of   |-> of,
        co_occurrences |-> co,
        \* lines 1470-1476, the three ratios in hundredths
        collection_metrics |->
           [total_tags |-> total_tags,
            total_files |-> total_files,
            total_tag_uses |-> total_tag_uses,
            avg_tags_per_file |-> IF total_files > 0
                                  THEN RoundTo(total_tag_uses, total_files, 100) ELSE 0,
            tag_density |-> IF total_tags > 0
                            THEN RoundTo(total_tag_uses, total_tags, 100) ELSE 0,
            reuse_ratio |-> IF total_tags > 0
                            THEN RoundTo(total_tag_uses, total_tags, 100) ELSE 0]]

\* the numbers calculate_tag_quality_metrics divides by: year_span unless it
\* is 0 (line 1386, for the tags with 3 dated occurrences or more),
\* total_files and total_tags unless they are 0 (lines 1474-1476)
QualityDivisors(tl, ty) ==
    {d \in {SetMax(Range(ty.years[t])) - SetMin(Range(ty.years[t])) + 1 :
              t \in {u \in Range(tl.keys) \cap Range(ty.keys) :
                       ~EndsWith(u, "_") /\ Len(ty.years[u]) >= MinTrendEntries}} :
        d > 0}
      \cup {d \in {Cardinality(DOMAIN FileTags(tl)), Len(tl.keys)} : d > 0}

(***************************************************************************)
(* Actions                                                                 *)
(***************************************************************************)
NoRelationships ==
    [strong_associations |-> <<>>, clusters |-> <<>>, bridge_tags |-> <<>>,
     isolated_tags |-> <<>>]

NoTrends ==
    [emerging |-> <<>>, declining |-> <<>>, stable |-> <<>>, periodic |-> <<>>,
     yearly_distribution |-> [keys |-> <<>>, years |-> <<>>]]

NoRemoval ==
    [too_generic |-> <<>>, too_specific |-> <<>>, redundant |-> <<>>,
     malformed |-> <<>>, obsolete |-> <<>>, low_value |-> <<>>]

NoDomains ==
    [domain_stats |-> <<>>, uncategorized |-> <<>>, cross_domain_tags |-> <<>>,
     total_tags_analyzed |-> 0, categorization_rate |-> [num |-> 0, den |-> 1]]

NoQuality ==
    [keys |-> <<>>, of |-> <<>>, co_occurrences |-> <<>>,
     collection_metrics |-> <<>>]

\* the three stages that read the graph, when they run as tasks of their
\* own: each is ready, running or done, or has raised; iter_size and
\* iter_pos are the dict iterator of the loop of line 437 (the size of the
\* dict when the iterator was made and the entry it is at)
NoPar ==
    [clusters |-> "ready", bridges |-> "ready", isolated |-> "ready",
     iter_size |-> 0, iter_pos |-> 0]

\* the state of a run before its first stage
Fresh ==
    /\ rglob_order = <<>>
    /\ set_order = "up"
    /\ pc = "scan"
    /\ tag_locations = EmptyIndex
    /\ suggestions = <<>>
    /\ temporal = NoTrends
    /\ co_occurrences = EmptyGraph
    /\ processed = {}
    /\ relationships = NoRelationships
    /\ research_domains = NoDomains
    /\ semantic = <<>>
    /\ removal = NoRemoval
    /\ quality = NoQuality
    /\ par = NoPar

Init ==
    /\ vault \in Vaults
    /\ run = 1
    /\ first_report = <<>>
    /\ Fresh

\* the ranked outputs of a run
Report ==
    [clusters  |-> relationships.clusters,
     bridge_tags |-> relationships.bridge_tags,
     emerging  |-> temporal.emerging,
     declining |-> temporal.declining,
     stable    |-> temporal.stable,
     periodic  |-> temporal.periodic,
     semantic  |-> semantic,
     removal   |-> removal]

\* analyze_tags: scan_vault_tags and _suggest_standardizations (the
\* directory order and the hash order of the run are fixed here)
Scan ==
    /\ pc = "scan"
    /\ \E o \in RglobOrders(Len(vault)), h \in SetOrders :
          /\ rglob_order' = o
          /\ set_order' = h
          /\ tag_locations' = ScanVaultTags(vault, o)
    /\ suggestions' = SuggestStandardizations(tag_locations')
    /\ pc' = "temporal"
    /\ UNCHANGED <<vault, run, temporal, co_occurrences, processed, relationships,
                   semantic, removal, quality, first_report, research_domains, par>>

\* analyze_temporal_trends; a division by zero raises, and the exception
\* handler of line 880 ends the run (pc = "raised")
Temporal ==
    /\ pc = "temporal"
    /\ IF 0 \in TemporalDivisors(TagYears(vault, rglob_order, set_order),
                                MetricsTable(TagYears(vault, rglob_order, set_order)))
       THEN pc' = "raised" /\ UNCHANGED temporal
       ELSE /\ pc' = "build_graph"
            /\ temporal' = AnalyzeTemporalTrends(vault, rglob_order, set_order)
    /\ UNCHANGED <<vault, rglob_order, set_order, run, tag_locations, suggestions,
                   co_occurrences, processed, relationships, semantic, removal,
                   quality, first_report, research_domains, par>>

\* analyze_tag_relationships, lines 286-321; line 305 divides by the uses
\* of every tag of the graph with more than 5 uses
BuildGraph ==
    /\ pc = "build_graph"
    /\ co_occurrences' = BuildCoOccurrences(tag_locations, set_order)
    /\ IF 0 \in {Uses(tag_locations, t) :
                   t \in {u \in Range(co_occurrences'.keys) :
                            /\ Uses(tag_locations, u) > MinSeedUses
                            /\ co_occurrences'.nb[u] # <<>>}}
       THEN pc' = "raised" /\ UNCHANGED relationships
       ELSE /\ pc' = "clusters"
            /\ relationships' = [NoRelationships EXCEPT !.strong_associations =
                                    StrongAssociations(co_occurrences', tag_locations)]
    /\ UNCHANGED <<vault, rglob_order, set_order, run, tag_locations, suggestions,
                   temporal, processed, semantic, removal, quality, first_report, research_domains, par>>

\* analyze_tag_relationships, line 324
FindClusters ==
    /\ pc = "clusters"
    /\ LET r == FindTagClusters(co_occurrences, tag_locations, set_order)
       IN /\ relationships' = [relationships EXCEPT !.clusters =
                                  IF 0 \in r.divisors THEN @ ELSE r.clusters]
          /\ processed' = r.processed
          /\ co_occurrences' = r.co
          /\ pc' = IF 0 \in r.divisors THEN "raised" ELSE "bridges"
    /\ UNCHANGED <<vault, rglob_order, set_order, run, tag_locations, suggestions,
                   temporal, semantic, removal, quality, first_report, research_domains, par>>

\* analyze_tag_relationships, line 327; line 467 divides by the number of
\* connected domains of every candidate
FindBridges ==
    /\ pc = "bridges"
    /\ IF 0 \in {Cardinality(DOMAIN DomainStrengths(co_occurrences, t)) :
                   t \in {u \in Range(co_occurrences.keys) :
                      /\ Uses(tag_locations, u) >= MinBridgeUses
                      /\ Cardinality(DOMAIN DomainStrengths(co_occurrences, u))
                            >= MinBridgeDomains}}
       THEN pc' = "raised" /\ UNCHANGED relationships
       ELSE /\ pc' = "isolated"
            /\ relationships' = [relationships EXCEPT !.bridge_tags =
                                    FindBridgeTags(co_occurrences, tag_locations)]
    /\ UNCHANGED <<vault, rglob_order, set_order, run, tag_locations, suggestions,
                   temporal, co_occurrences, processed, semantic, removal, quality,
                   first_report, research_domains, par>>

\* analyze_tag_relationships, lines 330-344
FindIsolated ==
    /\ pc = "isolated"
    /\ relationships' = [relationships EXCEPT !.isolated_tags =
                            FindIsolatedTags(co_occurrences, tag_locations)]
    /\ co_occurrences' = TouchAll(co_occurrences, IsolatedReads(tag_locations))
    /\ pc' = "domains"
    /\ UNCHANGED <<vault, rglob_order, set_order, run, tag_locations, suggestions,
                   temporal, processed, semantic, removal, quality, first_report,
                   research_domains, par>>

\* analyze_research_domains; lines 754 and 784 divide by
\* total_categorized_uses and by the number of tags unless they are 0
Domains ==
    /\ pc = "domains"
    /\ IF 0 \in {d \in {SumSeq([i \in 1..Len(tag_locations.keys) |->
                                  Cardinality(DomainsOf[tag_locations.keys[i]])
                                    * Uses(tag_locations, tag_locations.keys[i])]),
                         Len(tag_locations.keys)} : d > 0}
       THEN pc' = "raised" /\ UNCHANGED research_domains
       ELSE /\ pc' = "semantic"
            /\ research_domains' = AnalyzeResearchDomains(tag_locations)
    /\ UNCHANGED <<vault, rglob_order, set_order, run, tag_locations, suggestions,
                   temporal, co_occurrences, processed, relationships, semantic,
                   removal, quality, first_report, par>>

\* find_semantic_duplicates
Semantic ==
    /\ pc = "semantic"
    /\ semantic' = FindSemanticDuplicates(tag_locations, set_order)
    /\ pc' = "removal"
    /\ UNCHANGED <<vault, rglob_order, set_order, run, tag_locations, suggestions,
                   temporal, co_occurrences, processed, relationships, removal,
                   quality, first_report, research_domains, par>>

\* analyze_tags_to_remove
Removal ==
    /\ pc = "removal"
    /\ removal' = AnalyzeTagsToRemove(tag_locations, set_order)
    /\ pc' = "quality"
    /\ UNCHANGED <<vault, rglob_order, set_order, run, tag_locations, suggestions,
                   temporal, co_occurrences, processed, relationships, semantic,
                   quality, first_report, research_domains, par>>

\* calculate_tag_quality_metrics
Quality ==
    /\ pc = "quality"
    /\ IF 0 \in QualityDivisors(tag_locations, TagYears(vault, rglob_order, "list"))
       THEN pc' = "raised" /\ UNCHANGED quality
       ELSE /\ pc' = "done"
            /\ quality' = CalculateTagQualityMetrics(vault, rglob_order, tag_locations,
                                                      set_order)
    /\ UNCHANGED <<vault, rglob_order, set_order, run, tag_locations, suggestions,
                   temporal, co_occurrences, processed, relationships, semantic,
                   removal, first_report, research_domains, par>>

\* the analysis is run again on the same vault, by a new process
Rerun ==
    /\ pc = "done"
    /\ run = 1
    /\ run' = 2
    /\ first_report' = Report
    /\ rglob_order' = <<>>
    /\ set_order' = "up"
    /\ pc' = "scan"
    /\ tag_locations' = EmptyIndex
    /\ suggestions' = <<>>
    /\ temporal' = NoTrends
    /\ co_occurrences' = EmptyGraph
    /\ processed' = {}
    /\ relationships' = NoRelationships
    /\ research_domains' = NoDomains
    /\ semantic' = <<>>
    /\ removal' = NoRemoval
    /\ quality' = NoQuality
    /\ UNCHANGED <<vault, par>>

Next ==
    \/ Scan \/ Temporal \/ BuildGraph \/ FindClusters \/ FindBridges
    \/ FindIsolated \/ Domains \/ Semantic \/ Removal \/ Quality \/ Rerun

Spec == Init /\ [][Next]_vars

(***************************************************************************)
(* The three stages that read the graph, run as tasks over one graph       *)
(***************************************************************************)
\* what the tasks leave alone
TaskFrame ==
    UNCHANGED <<vault, rglob_order, set_order, pc, run, tag_locations, suggestions,
                temporal, research_domains, semantic, removal, quality,
                first_report>>

\* _find_tag_clusters as one step: the reads of line 356 add the missing
\* tags to the graph
ClustersTask ==
    /\ pc = "clusters"
    /\ par.clusters = "ready"
    /\ LET r == FindTagClusters(co_occurrences, tag_locations, set_order)
       IN /\ relationships' = [relationships EXCEPT !.clusters = r.clusters]
          /\ processed' = r.processed
          /\ co_occurrences' = r.co
    /\ par' = [par EXCEPT !.clusters = "done"]
    /\ TaskFrame

\* the loop of lines 330-335 as one step: the reads of line 333 add the
\* missing tags to the graph
IsolatedTask ==
    /\ pc = "clusters"
    /\ par.isolated = "ready"
    /\ relationships' = [relationships EXCEPT !.isolated_tags =
                            FindIsolatedTags(co_occurrences, tag_locations)]
    /\ co_occurrences' = TouchAll(co_occurrences, IsolatedReads(tag_locations))
    /\ par' = [par EXCEPT !.isolated = "done"]
    /\ UNCHANGED processed
    /\ TaskFrame

\* _find_bridge_tags, line 437: co_occurrences.items() makes the iterator,
\* which remembers the size of the dict
BridgesStart ==
    /\ pc = "clusters"
    /\ par.bridges = "ready"
    /\ par' = [par EXCEPT !.bridges = "running",
                          !.iter_size = Len(co_occurrences.keys),
                          !.iter_pos = 0]
    /\ UNCHANGED <<co_occurrences, processed, relationships>>
    /\ TaskFrame

\* one turn of the loop of line 437: the iterator raises RuntimeError
\* (dictionary changed size during iteration) if the dict has another size
\* than when it was made; otherwise it yields the next entry, or ends the
\* loop, after which lines 479-485 return the list
BridgesStep ==
    /\ pc = "clusters"
    /\ par.bridges = "running"
    /\ IF Len(co_occurrences.keys) # par.iter_size
       THEN /\ par' = [par EXCEPT !.bridges = "raised"]
            /\ UNCHANGED relationships
       ELSE IF par.iter_pos < par.iter_size
       THEN /\ par' = [par EXCEPT !.iter_pos = @ + 1]
            /\ UNCHANGED relationships
       ELSE /\ par' = [par EXCEPT !.bridges = "done"]
            /\ relationships' = [relationships EXCEPT !.bridge_tags =
                                    FindBridgeTags(co_occurrences, tag_locations)]
    /\ UNCHANGED <<co_occurrences, processed>>
    /\ TaskFrame

NextTasks ==
    \/ Scan \/ Temporal \/ BuildGraph
    \/ ClustersTask \/ IsolatedTask \/ BridgesStart \/ BridgesStep

SpecTasks == Init /\ [][NextTasks]_vars

(***************************************************************************)
(* Properties                                                              *)
(***************************************************************************)
GraphBuilt == pc \notin {"scan", "temporal", "build_graph"}

\* the documents of the vault that carry the tag t, read from the files
DocsWith(t) ==
    {i \in 1..Len(vault) :
        \E k \in 1..Len(vault[i].hashtags) : Lower(vault[i].hashtags[k]) = t}

\* weight(a, b) as stored in co_occurrences, 0 when no entry is stored
Weight(a, b) ==
    IF a \in Range(co_occurrences.keys) /\ b \in DOMAIN co_occurrences.w[a]
    THEN co_occurrences.w[a][b] ELSE 0

\* C1: once the graph is built, for all distinct tags a, b the stored weight
\* is the number of distinct documents carrying both, the weight is
\* symmetric, no tag has an edge to itself and no stored weight is 0.
C1_ExactSymmetricWeights ==
    GraphBuilt =>
        LET keys == Range(tag_locations.keys)
            docs == AsFcn([t \in keys |-> DocsWith(t)])
        IN \A a \in keys :
              /\ a \notin DOMAIN CoTags(co_occurrences, a)
              /\ \A b \in DOMAIN CoTags(co_occurrences, a) : co_occurrences.w[a][b] > 0
              /\ \A b \in keys \ {a} :
                    /\ Weight(a, b) = Cardinality(docs[a] \cap docs[b])
                    /\ Weight(a, b) = Weight(b, a)

\* a graph with a weight of 4 or more between two tags, one of which is
\* written twice in a document (more uses than documents)
C1_Witness ==
    /\ pc = "done"
    /\ \E a, b \in Range(tag_locations.keys) :
          /\ a # b
          /\ Weight(a, b) >= 4
          /\ Uses(tag_locations, a) > Cardinality(DocsWith(a))

ClusterTags(i) == Range(relationships.clusters[i].tags)

\* C2: no tag appears in more than one emitted cluster.
C2_ClustersDisjoint ==
    \A i, j \in 1..Len(relationships.clusters) :
        i # j => ClusterTags(i) \cap ClusterTags(j) = {}

\* two clusters were emitted and a member of one of them is a co-tag of the
\* other cluster's seed that passes the weight and strength tests
C2_Witness ==
    /\ pc = "done"
    /\ \E i, j \in 1..Len(relationships.clusters) :
          /\ i # j
          /\ \E t \in ClusterTags(i) :
                LET seed == relationships.clusters[j].seed
                IN /\ Weight(seed, t) > MinClusterWeight
                   /\ StrongEnough(Weight(seed, t), Uses(tag_locations, seed))

\* C3: the semantic groups returned are pairwise disjoint: no tag is
\* reported in two emitted groups.
C3_SemanticGroupsDisjoint ==
    \A i, j \in 1..Len(semantic) :
        i # j => Range(semantic[i].tags) \cap Range(semantic[j].tags) = {}

\* two groups were emitted and one of them came out of the merge with fewer
\* tags than its candidate had, the others being in a higher-ranked group
C3_Witness ==
    /\ pc = "done"
    /\ Len(semantic) >= 2
    /\ LET cand == CandidateGroups(tag_locations, set_order)
       IN \E i \in 1..Len(semantic), k \in 1..Len(cand) :
             /\ cand[k].type = semantic[i].type
             /\ cand[k].key = semantic[i].key
             /\ Len(cand[k].tags) > Len(semantic[i].tags)
             /\ \E j \in 1..(i - 1) :
                   Range(cand[k].tags) \cap Range(semantic[j].tags) # {}

\* C4: every scored tag has its five sub-scores and its overall score in
\* [0, 1], and its category is high exactly when the overall score reported
\* is >= 0.7, medium exactly when it is in [0.5, 0.7), low exactly when it
\* is < 0.5.
C4_CategoryMatchesOverall ==
    \A t \in Range(quality.keys) :
        LET m == quality.of[t]
        IN /\ m.usage \in 0..10
           /\ m.diversity \in 0..20
           /\ m.clarity \in 0..2
           /\ m.temporal.num >= 0 /\ m.temporal.num <= m.temporal.den
           /\ m.semantic \in 0..10
           /\ m.overall_score \in 0..1000
           /\ (m.quality_category = "high") <=> (m.overall_score >= 700)
           /\ (m.quality_category = "medium") <=>
                 (m.overall_score >= 500 /\ m.overall_score < 700)
           /\ (m.quality_category = "low") <=> (m.overall_score < 500)

TrendNames == {"emerging", "declining", "stable", "periodic"}

TrendTags(c) == {temporal[c][i].tag : i \in 1..Len(temporal[c])}

\* the tests of the Emerging and of the Declining category on the years
\* recorded for a tag
MeetsEmergingOrDeclining(t) ==
    LET years  == temporal.yearly_distribution.years[t]
        recent == Cardinality({i \in 1..Len(years) : years[i] >= CurrentYear - 2})
        peak   == CHOOSE y \in Range(years) :
                     /\ \A z \in Range(years) :
                           Cardinality({i \in 1..Len(years) : years[i] = z})
                             <= Cardinality({i \in 1..Len(years) : years[i] = y})
                     /\ \A i \in 1..Len(years) :
                           (\A z \in Range(years) :
                              Cardinality({j \in 1..Len(years) : years[j] = z})
                                <= Cardinality({j \in 1..Len(years) : years[j] = years[i]}))
                           => \E k \in 1..i : years[k] = y
    IN \/ 10 * recent > 7 * Len(years) /\ recent > 0
       \/ 10 * recent < 3 * Len(years) /\ peak < CurrentYear - 3

\* C5: every tag appears in at most one of the four trend lists, and a tag
\* that meets the Emerging or the Declining condition is never listed as
\* Periodic.
C5_OneTrendCategory ==
    /\ \A c, d \in TrendNames : c # d => TrendTags(c) \cap TrendTags(d) = {}
    /\ \A c \in TrendNames : Cardinality(TrendTags(c)) = Len(temporal[c])
    /\ \A t \in TrendTags("periodic") : ~MeetsEmergingOrDeclining(t)

\* a tag is listed as Emerging or Declining although it was active in three
\* years or more, with an activity density below 0.5 and a gap of more than
\* one year
C5_Witness ==
    /\ pc = "done"
    /\ \E c \in {"emerging", "declining"} : \E i \in 1..Len(temporal[c]) :
          LET m == temporal[c][i].metrics
          IN /\ m.years_active >= 3
             /\ 2 * m.years_active < m.year_span
             /\ m.gaps # <<>>

\* the ranking of a report: the order of its entries, the tags of a cluster
\* or of a group taken as a set
Ranking(r) ==
    [clusters  |-> [i \in 1..Len(r.clusters) |-> Range(r.clusters[i].tags)],
     bridge_tags |-> [i \in 1..Len(r.bridge_tags) |-> r.bridge_tags[i].tag],
     emerging  |-> [i \in 1..Len(r.emerging) |-> r.emerging[i].tag],
     declining |-> [i \in 1..Len(r.declining) |-> r.declining[i].tag],
     stable    |-> [i \in 1..Len(r.stable) |-> r.stable[i].tag],
     periodic  |-> [i \in 1..Len(r.periodic) |-> r.periodic[i].tag],
     semantic  |-> [i \in 1..Len(r.semantic) |->
                      <<r.semantic[i].type, r.semantic[i].key,
                        Range(r.semantic[i].tags)>>],
     removal   |-> [c \in DOMAIN r.removal |->
                      [i \in 1..Len(r.removal[c]) |-> r.removal[c][i].tag]]]

\* C6: two runs of the full analysis on the same vault produce the same
\* ranked outputs, whatever the enumeration orders of the two runs.
C6_RerunSameRanking ==
    (run = 2 /\ pc = "done") => Ranking(Report) = Ranking(first_report)

\* the weighted edges stored in the graph g
Edges(g) ==
    UNION {{<<a, b, g.w[a][b]>> : b \in DOMAIN g.w[a]} : a \in Range(g.keys)}

\* C7: cluster detection, bridge detection and isolated-tag detection leave
\* the index unchanged and the co-occurrence graph with the same keys and
\* the same weights as graph construction left it.
C7_StagesPreserveInputs ==
    [][(pc \in {"clusters", "bridges", "isolated"}) =>
          (tag_locations' = tag_locations
           /\ Range(co_occurrences'.keys) = Range(co_occurrences.keys)
           /\ Edges(co_occurrences') = Edges(co_occurrences))]_vars

\* the co-tags of tag that match the domain d by keyword or by pattern
MatchingCoTags(tag, d) ==
    {c \in DOMAIN CoTags(co_occurrences, tag) :
        KeywordMatch(Lower(c), d) \/ PatternMatches(Lower(c), d) > 0}

\* C8: for every bridge candidate and every domain, the domain strength is
\* the sum of the weights of the co-tags that match the domain, each counted
\* once, and bridge_strength is the sum of the domain strengths over the
\* number of connected domains.
C8_DomainStrengthCountsOnce ==
    \A i \in 1..Len(relationships.bridge_tags) :
        LET b == relationships.bridge_tags[i]
            once == [d \in Range(DomainNames) |->
                        SumFcn([c \in MatchingCoTags(b.tag, d) |-> Weight(b.tag, c)],
                               MatchingCoTags(b.tag, d))]
            connected == {d \in Range(DomainNames) : MatchingCoTags(b.tag, d) # {}}
        IN /\ DOMAIN b.domain_strengths = connected
           /\ \A d \in connected : b.domain_strengths[d] = once[d]
           /\ b.bridge_strength.num = SumFcn(once, connected)
           /\ b.bridge_strength.den = Cardinality(connected)

RemovalDone == pc \in {"quality", "done"}

RemovalTags(c) == {removal[c][i].tag : i \in 1..Len(removal[c])}

\* C9: the rules too_generic, too_specific, malformed, low_value are applied
\* in this order and the first match wins, so a tag is in at most one of the
\* four lists; a tag shorter than 3 characters is in too_generic and in none
\* of the other three.
C9_RemovalFirstMatch ==
    RemovalDone =>
        \A t \in Range(tag_locations.keys) :
            LET generic   == t \in generic_words \/ Len(t) < 3
                specific  == Uses(tag_locations, t) = 1 /\ Len(t) > 30
                malformed == \A i \in 1..Len(t) : CharAt(t, i) \in Digits \cup {"_"}
                in == {c \in {"too_generic", "too_specific", "malformed", "low_value"} :
                         t \in RemovalTags(c)}
            IN /\ Cardinality(in) <= 1
               /\ "too_generic" \in in <=> generic
               /\ "too_specific" \in in <=> (~generic /\ specific)
               /\ "malformed" \in in <=> (~generic /\ ~specific /\ malformed)
               /\ "low_value" \in in => (~generic /\ ~specific /\ ~malformed)
               /\ Len(t) < 3 => in = {"too_generic"}

\* a one-character tag used once and an all-digit tag of two characters are
\* both flagged too_generic, next to a malformed and a too_specific tag
C9_Witness ==
    /\ pc = "done"
    /\ \E t \in RemovalTags("too_generic") :
          Len(t) = 1 /\ Uses(tag_locations, t) = 1
    /\ \E t \in RemovalTags("too_generic") : Len(t) = 2 /\ IsDigit(t)
    /\ RemovalTags("malformed") # {}
    /\ RemovalTags("too_specific") # {}
    /\ RemovalTags("low_value") # {}

\* C10: there is exactly one suggestion for every indexed tag that is a key
\* of the variant table and none for any other tag; the suggestion names
\* the canonical form, with reason variant_exists and both usage counts
\* when the canonical form is indexed, with reason standardization when it
\* is not.
C10_OneSuggestionPerVariant ==
    pc # "scan" =>
        LET keys == Range(tag_locations.keys)
            variants == {t \in keys :
                           \E k \in 1..Len(tag_mappings) : tag_mappings[k][1] = t}
        IN /\ {suggestions[i].current : i \in 1..Len(suggestions)} = variants
           /\ Len(suggestions) = Cardinality(variants)
           /\ \A i \in 1..Len(suggestions) :
                 LET s == suggestions[i]
                     k == CHOOSE k \in 1..Len(tag_mappings) :
                             tag_mappings[k][1] = s.current
                     std == tag_mappings[k][2]
                 IN /\ s.suggested = std
                    /\ s.current_uses = Uses(tag_locations, s.current)
                    /\ IF std \in keys
                       THEN /\ s.reason = "variant_exists"
                            /\ s.standard_uses = Uses(tag_locations, std)
                       ELSE s.reason = "standardization"

\* a vault with a variant whose canonical form is indexed, a variant whose
\* canonical form is not, and an indexed tag that is no variant
C10_Witness ==
    /\ pc = "done"
    /\ \E i, j \in 1..Len(suggestions) :
          /\ suggestions[i].reason = "variant_exists"
          /\ suggestions[j].reason = "standardization"
    /\ Len(suggestions) < Len(tag_locations.keys)

SuggestionsFor(t) == {i \in 1..Len(suggestions) : suggestions[i].current = t}

\* C11 as stated: whenever the index contains k12 and does not contain
\* k_12, the suggestion for k12 is a rename with reason standardization.
C11_RenameWhenNoK_12 ==
    pc # "scan" =>
        (("k12" \in Range(tag_locations.keys) /\ "k_12" \notin Range(tag_locations.keys))
           => \E i \in SuggestionsFor("k12") : suggestions[i].reason = "standardization")

\* C11 amended: whenever the index contains k12 and does not contain k-12,
\* the canonical form of k12 in the table, there is one suggestion for k12
\* and it is a rename to k-12 with reason standardization.
C11_RenameWhenNoCanonical ==
    pc # "scan" =>
        (("k12" \in Range(tag_locations.keys) /\ "k-12" \notin Range(tag_locations.keys))
           => /\ Cardinality(SuggestionsFor("k12")) = 1
              /\ \A i \in SuggestionsFor("k12") :
                    /\ suggestions[i].suggested = "k-12"
                    /\ suggestions[i].reason = "standardization")

\* the suggestions were made for an index with k12 and with neither k_12
\* nor k-12
C11_Witness ==
    /\ pc = "done"
    /\ "k12" \in Range(tag_locations.keys)
    /\ "k_12" \notin Range(tag_locations.keys)
    /\ "k-12" \notin Range(tag_locations.keys)
    /\ SuggestionsFor("k12") # {}

\* the years recorded for the tag t, and the counts the Stable band is
\* stated on
YearsOf(t) == temporal.yearly_distribution.years[t]

RecentOf(t) == Cardinality({i \in 1..Len(YearsOf(t)) : YearsOf(t)[i] >= CurrentYear - 2})

SpanOf(t) ==
    (CHOOSE y \in Range(YearsOf(t)) : \A z \in Range(YearsOf(t)) : z <= y)
      - (CHOOSE y \in Range(YearsOf(t)) : \A z \in Range(YearsOf(t)) : y <= z) + 1

InStableBand(t) ==
    /\ Len(YearsOf(t)) >= 5
    /\ 10 * RecentOf(t) >= 3 * Len(YearsOf(t))
    /\ 10 * RecentOf(t) <= 7 * Len(YearsOf(t))
    /\ 2 * Cardinality(Range(YearsOf(t))) > SpanOf(t)

\* C12: every tag with at least 5 dated occurrences, a recent ratio between
\* 0.3 and 0.7 inclusive and an activity density above 0.5 is classified
\* Stable: it is in the stable list unless that list is cut at its cap; the
\* tag used twice in each of the years 2019..2023 (recent ratio 0.4, density
\* 1.0) is Stable.
C12_StableBand ==
    /\ \A t \in Range(temporal.yearly_distribution.keys) :
          InStableBand(t) =>
             \/ t \in TrendTags("stable")
             \/ Len(temporal.stable) = TopSteady
    /\ (pc = "done" /\ \E o \in RglobOrders(Len(vault)) :
            [i \in 1..Len(vault) |-> vault[o[i]].year]
               = <<2019, 2019, 2020, 2020, 2021, 2021, 2022, 2022, 2023, 2023>>)
          => \A t \in Range(temporal.yearly_distribution.keys) :
                /\ 10 * RecentOf(t) = 4 * Len(YearsOf(t))
                /\ Cardinality(Range(YearsOf(t))) = SpanOf(t)
                /\ t \in TrendTags("stable")

\* the tag used twice in each of the years 2019..2023 has been classified
\* and is listed as Stable
C12_Witness ==
    /\ pc = "done"
    /\ \E t \in TrendTags("stable") :
          /\ InStableBand(t)
          /\ Len(YearsOf(t)) = 10
          /\ \A y \in 2019..2023 : Cardinality({i \in 1..10 : YearsOf(t)[i] = y}) = 2

\* C13: a tag with fewer than 3 distinct years or fewer than 5 occurrences
\* is Unclassified: it is in none of the four trend lists (five occurrences
\* all in the current year are not Emerging).
C13_FewYearsUnclassified ==
    \A t \in Range(temporal.yearly_distribution.keys) :
       (Cardinality(Range(YearsOf(t))) < 3 \/ Len(YearsOf(t)) < 5)
          => \A c \in TrendNames : t \notin TrendTags(c)

\* C14: no stage raises on an edge input (an empty index, tags without a
\* dated document, tags whose occurrences all fall in one year): no run ends
\* in the exception handler, every ratio reported has a denominator that is
\* not 0, and the ratios over an empty collection have the fallback value 0.
C14_NoStageRaises ==
    /\ pc # "raised"
    /\ pc = "done" =>
          /\ \A c \in TrendNames : \A i \in 1..Len(temporal[c]) :
                temporal[c][i].score.den > 0
          /\ \A i \in 1..Len(relationships.bridge_tags) :
                relationships.bridge_tags[i].bridge_strength.den > 0
          /\ \A i \in 1..Len(research_domains.domain_stats) :
                research_domains.domain_stats[i].percentage.den > 0
          /\ research_domains.categorization_rate.den > 0
          /\ \A t \in Range(quality.keys) :
                /\ quality.of[t].temporal.den > 0
                /\ t \notin Range(temporal.yearly_distribution.keys)
                      => quality.of[t].temporal.num = 0
          /\ tag_locations.keys = <<>> =>
                /\ quality.collection_metrics.avg_tags_per_file = 0
                /\ quality.collection_metrics.tag_density = 0
                /\ quality.collection_metrics.reuse_ratio = 0
                /\ research_domains.categorization_rate.num = 0

\* a run has ended on a vault whose tag was used in one year only and was
\* classified, so that its list of year differences was empty
C14_Witness ==
    /\ pc = "done"
    /\ \E i \in 1..Len(temporal.emerging) :
          /\ temporal.emerging[i].metrics.years_active = 1
          /\ temporal.emerging[i].metrics.growth_len = 0

\* C15: every cluster contains its seed and has more than 2 members; its
\* seed has more than 5 uses and more than 5 neighbours of weight above 3;
\* every other member n has weight(seed, n) > 3 and weight(seed, n) /
\* usage(seed) > 0.4; the clusters are listed by the total usage of their
\* members, largest first.
C15_ClustersWellFormed ==
    /\ \A i \in 1..Len(relationships.clusters) :
          LET c == relationships.clusters[i]
              w == co_occurrences.w[c.seed]
          IN /\ c.seed \in Range(c.tags)
             /\ Cardinality(Range(c.tags)) > 2
             /\ c.size = Cardinality(Range(c.tags))
             /\ Uses(tag_locations, c.seed) > 5
             /\ Cardinality({n \in DOMAIN w : w[n] > 3}) > 5
             /\ \A n \in Range(c.tags) \ {c.seed} :
                   /\ n \in DOMAIN w
                   /\ w[n] > 3
                   /\ 10 * w[n] > 4 * Uses(tag_locations, c.seed)
             /\ c.total_uses = SumUses(tag_locations, Range(c.tags))
    /\ \A i, j \in 1..Len(relationships.clusters) :
          i < j => relationships.clusters[i].total_uses
                     >= relationships.clusters[j].total_uses

\* two clusters of different total usage have been emitted, and a seed has
\* a neighbour of weight above 3 that is not a member of its cluster
C15_Witness ==
    /\ pc = "done"
    /\ \E i, j \in 1..Len(relationships.clusters) :
          relationships.clusters[i].total_uses > relationships.clusters[j].total_uses
    /\ \E i \in 1..Len(relationships.clusters) :
          \E n \in DOMAIN co_occurrences.w[relationships.clusters[i].seed] :
             /\ co_occurrences.w[relationships.clusters[i].seed][n] > 3
             /\ n \notin Range(relationships.clusters[i].tags)

\* the domains a tag is connected to by its co-tags in the graph
ConnectedDomains(t) == {d \in Range(DomainNames) : MatchingCoTags(t, d) # {}}

\* x ranks strictly above y by (domain_count, bridge_strength, uses)
RanksAbove(x, y) ==
    \/ x.domain_count > y.domain_count
    \/ /\ x.domain_count = y.domain_count
       /\ x.bridge_strength.num * y.bridge_strength.den
            > y.bridge_strength.num * x.bridge_strength.den
    \/ /\ x.domain_count = y.domain_count
       /\ x.bridge_strength.num * y.bridge_strength.den
            = y.bridge_strength.num * x.bridge_strength.den
       /\ x.uses > y.uses

\* the tags of the graph that meet the two conditions of a bridge candidate
\* and are not in the list
LeftOutBridges ==
    {t \in Range(co_occurrences.keys) :
        /\ Uses(tag_locations, t) >= 5
        /\ Cardinality(ConnectedDomains(t)) >= 3
        /\ \A i \in 1..Len(relationships.bridge_tags) :
              relationships.bridge_tags[i].tag # t}

\* C16: every bridge candidate emitted has at least 5 uses and at least 3
\* connected domains; the list is sorted by (domain_count, bridge_strength,
\* uses), largest first, has at most 15 entries, and no candidate left out
\* ranks strictly above an emitted one.
C16_BridgesRanked ==
    /\ Len(relationships.bridge_tags) <= 15
    /\ \A i \in 1..Len(relationships.bridge_tags) :
          LET b == relationships.bridge_tags[i]
          IN /\ b.uses >= 5
             /\ b.uses = Uses(tag_locations, b.tag)
             /\ b.domain_count >= 3
             /\ b.domain_count = Cardinality(ConnectedDomains(b.tag))
    /\ \A i, j \in 1..Len(relationships.bridge_tags) :
          i < j => ~RanksAbove(relationships.bridge_tags[j], relationships.bridge_tags[i])
    /\ \A t \in LeftOutBridges : \A i \in 1..Len(relationships.bridge_tags) :
          ~RanksAbove(BridgeCandidate(co_occurrences, tag_locations, t),
                      relationships.bridge_tags[i])

\* the list is full, a candidate was left out, and the entries of the list
\* differ in rank
C16_Witness ==
    /\ pc = "done"
    /\ Len(relationships.bridge_tags) = 15
    /\ LeftOutBridges # {}
    /\ RanksAbove(relationships.bridge_tags[1], relationships.bridge_tags[15])

\* every tag that some stage of the analysis has produced
AnalysedTags ==
    Range(co_occurrences.keys)
      \cup UNION {DOMAIN co_occurrences.w[t] : t \in Range(co_occurrences.keys)}
      \cup UNION {Range(relationships.clusters[i].tags) :
                    i \in 1..Len(relationships.clusters)}
      \cup {relationships.bridge_tags[i].tag : i \in 1..Len(relationships.bridge_tags)}
      \cup UNION {Range(semantic[i].tags) : i \in 1..Len(semantic)}
      \cup UNION {RemovalTags(c) : c \in DOMAIN removal}
      \cup Range(quality.keys)

\* C17: author tags (tags ending in "_") are excluded from all analysis: none
\* is a node of the co-occurrence graph, a member of a cluster, a bridge
\* candidate, a member of a semantic group, a removal candidate or a key of
\* the quality scores.
C17_AuthorTagsExcluded ==
    \A t \in AnalysedTags : ~EndsWith(t, "_")

\* a vault in which a note carries an author tag next to tags that were
\* analysed has gone through every stage
C17_Witness ==
    /\ pc = "done"
    /\ \E i \in 1..Len(vault) : \E k \in 1..Len(vault[i].hashtags) :
          /\ EndsWith(vault[i].hashtags[k], "_")
          /\ \E j \in 1..Len(vault[i].hashtags) :
                vault[i].hashtags[j] \in AnalysedTags

\* the graph as analyze_tag_relationships builds it from the index
FreshGraph == BuildCoOccurrences(tag_locations, set_order)

\* C18: in every interleaving of cluster detection, bridge detection and
\* isolated-tag detection over one graph, each stage completes without error
\* and returns what it returns when it runs alone on the freshly built
\* graph.
C18_StagesDoNotObserve ==
    pc = "clusters" =>
       /\ \A t \in {"clusters", "bridges", "isolated"} : par[t] # "raised"
       /\ par.clusters = "done" =>
             relationships.clusters
               = FindTagClusters(FreshGraph, tag_locations, set_order).clusters
       /\ par.bridges = "done" =>
             relationships.bridge_tags = FindBridgeTags(FreshGraph, tag_locations)
       /\ par.isolated = "done" =>
             relationships.isolated_tags = FindIsolatedTags(FreshGraph, tag_locations)

\* C19: every tag with at most 2 uses that is in none of too_generic,
\* too_specific and malformed is flagged low_value, whether it is used once
\* or twice.
C19_RareTagsLowValue ==
    RemovalDone =>
       \A t \in Range(tag_locations.keys) :
          (/\ Uses(tag_locations, t) <= 2
           /\ t \notin RemovalTags("too_generic")
           /\ t \notin RemovalTags("too_specific")
           /\ t \notin RemovalTags("malformed"))
             => t \in RemovalTags("low_value")

RedundantTypes == {"stem_match", "common_prefix"}

\* the entries of the redundant list for the tag t
RedundantEntries(t) ==
    {i \in 1..Len(removal.redundant) : removal.redundant[i].tag = t}

\* C20: for every semantic group returned of type stem_match or
\* common_prefix one member of largest usage is kept and every other member
\* is flagged redundant with a reason that names the kept tag; no kept tag
\* is flagged redundant, and no tag of a group of another type is.
C20_RedundantKeepsMostUsed ==
    RemovalDone =>
       /\ \A g \in 1..Len(semantic) :
             IF semantic[g].type \in RedundantTypes
             THEN \E k \in Range(semantic[g].tags) :
                     /\ \A m \in Range(semantic[g].tags) :
                           Uses(tag_locations, k) >= Uses(tag_locations, m)
                     /\ RedundantEntries(k) = {}
                     /\ \A m \in Range(semantic[g].tags) \ {k} :
                           /\ RedundantEntries(m) # {}
                           /\ \A i \in RedundantEntries(m) :
                                 removal.redundant[i].kept = k
             ELSE \A m \in Range(semantic[g].tags) : RedundantEntries(m) = {}
       /\ \A i \in 1..Len(removal.redundant) :
             /\ RedundantEntries(removal.redundant[i].kept) = {}
             /\ \E g \in 1..Len(semantic) :
                   /\ semantic[g].type \in RedundantTypes
                   /\ removal.redundant[i].tag \in Range(semantic[g].tags)

\* a group of type common_prefix whose members differ in usage was
\* returned, and its less used members are flagged
C20_Witness ==
    /\ pc = "done"
    /\ \E g \in 1..Len(semantic) :
          /\ semantic[g].type = "common_prefix"
          /\ \E a, b \in Range(semantic[g].tags) :
                /\ Uses(tag_locations, a) > Uses(tag_locations, b)
                /\ RedundantEntries(b) # {}

QualityDone == pc = "done"

Recommended(t, r) == r \in Range(quality.of[t].recommendations)

\* the reasons of the low branch hold exactly for the weak sub-scores
LowReasons(t) ==
    LET m == quality.of[t]
    IN /\ Recommended(t, "Consider renaming for clarity") <=> (m.clarity < 1)
       /\ Recommended(t, "Too generic or too specific") <=> (m.semantic < 5)
       /\ Recommended(t, "Consider removing due to low usage") <=> (m.usage_count < 3)

\* C21 as stated: every tag of category low has the increase-usage reason
\* when its usage score is < 0.3, the rename reason when its clarity is
\* < 0.5, the too-generic/specific reason when its semantic score is < 0.5
\* and the consider-removing reason when it has fewer than 3 uses; every tag
\* of category high has the promote recommendation.
C21_LowTagsGetEveryReason ==
    QualityDone =>
       \A t \in Range(quality.keys) :
          LET m == quality.of[t]
          IN /\ m.quality_category = "low" =>
                   /\ m.usage < 3 => Recommended(t, "Increase usage across more articles")
                   /\ m.clarity < 1 => Recommended(t, "Consider renaming for clarity")
                   /\ m.semantic < 5 => Recommended(t, "Too generic or too specific")
                   /\ m.usage_count < 3 =>
                         Recommended(t, "Consider removing due to low usage")
             /\ m.quality_category = "high" => Recommended(t, "Promote as standard tag")

\* C21, amended: a tag of category low has the rename reason exactly when
\* its clarity is < 0.5, the too-generic/specific reason exactly when its
\* semantic score is < 0.5, the consider-removing reason exactly when it has
\* fewer than 3 uses, and never the increase-usage reason, which only a tag
\* of category medium with a usage score < 0.3 gets; a tag of category high
\* has the promote recommendation and no other.
C21_ReasonsByCategory ==
    QualityDone =>
       \A t \in Range(quality.keys) :
          LET m == quality.of[t]
          IN /\ m.quality_category = "low" =>
                   /\ LowReasons(t)
                   /\ ~Recommended(t, "Increase usage across more articles")
                   /\ ~Recommended(t, "Promote as standard tag")
             /\ m.quality_category = "medium" =>
                   (Recommended(t, "Increase usage across more articles")
                       <=> (m.usage < 3))
             /\ Recommended(t, "Increase usage across more articles")
                   => m.quality_category = "medium"
             /\ m.quality_category = "high" =>
                   m.recommendations = <<"Promote as standard tag">>

\* a tag of category low with a usage score below 0.3 has been scored and
\* is told to be removed, and a tag of category medium with such a usage
\* score is told to be used more
C21_Witness ==
    /\ pc = "done"
    /\ \E t \in Range(quality.keys) :
          /\ quality.of[t].quality_category = "low"
          /\ quality.of[t].usage < 3
          /\ Recommended(t, "Consider removing due to low usage")
    /\ \E t \in Range(quality.keys) :
          /\ quality.of[t].quality_category = "medium"
          /\ Recommended(t, "Increase usage across more articles")

\* the characters of a tag of the index, in the order of their code points
AsciiOrder == "-0123456789_abcdefghijklmnopqrstuvwxyz"

CharRank(c) == CHOOSE i \in 1..Len(AsciiOrder) : CharAt(AsciiOrder, i) = c

\* a < b for two strings, as Python compares them
RECURSIVE LexLess(_, _)
LexLess(a, b) ==
    IF Len(b) = 0 THEN FALSE
    ELSE IF Len(a) = 0 THEN TRUE
    ELSE IF CharAt(a, 1) # CharAt(b, 1)
         THEN CharRank(CharAt(a, 1)) < CharRank(CharAt(b, 1))
         ELSE LexLess(SubSeq(a, 2, Len(a)), SubSeq(b, 2, Len(b)))

ClustersDone == pc \notin {"scan", "suggest", "temporal", "graph", "clusters", "raised"}

\* seed_candidates after the sort of line 361, in the order in which the
\* loop of line 364 reaches them
SeedsTried ==
    Prefix(SortedSeq(SeedCandidates(co_occurrences, tag_locations), MoreConnected),
           TopSeeds)

\* x comes before y by (connections descending, usage descending, name)
SeedBefore(x, y) ==
    \/ x[2] > y[2]
    \/ /\ x[2] = y[2]
       /\ \/ Uses(tag_locations, x[1]) > Uses(tag_locations, y[1])
          \/ /\ Uses(tag_locations, x[1]) = Uses(tag_locations, y[1])
             /\ LexLess(x[1], y[1])

\* C22: the seed candidates are tried in the total order given by the
\* number of neighbours of weight above 3, descending, then the usage,
\* descending, then the tag name, so whatever the order of the index.
C22_SeedsTotallyOrdered ==
    ClustersDone =>
       \A i, j \in 1..Len(SeedsTried) :
          i < j => SeedBefore(SeedsTried[i], SeedsTried[j])

\* the seeds that the loop of line 364 did not skip, in order
SeedsStarted ==
    BuildClusters(co_occurrences, tag_locations, SeedsTried, NoClusters,
                  set_order).started

\* C23: a cluster is started from each of the 10 highest-ranked seed
\* candidates that are unclaimed when reached; a candidate that is skipped
\* because it is claimed uses up none of the 10 slots, so a seed candidate
\* is left unclaimed only when 10 clusters were started.
C23_ClaimedSeedsUseNoSlot ==
    ClustersDone =>
       (Len(SeedsStarted) < TopSeeds
          => \A i \in 1..Len(SeedCandidates(co_occurrences, tag_locations)) :
                SeedCandidates(co_occurrences, tag_locations)[i][1] \in processed)

SemanticDone == pc \in {"removal", "quality", "done"}

\* the tags of the candidate groups of the given types
CandidateTags(types) ==
    UNION {Range(CandidateGroups(tag_locations, set_order)[i].tags) :
             i \in {k \in 1..Len(CandidateGroups(tag_locations, set_order)) :
                      CandidateGroups(tag_locations, set_order)[k].type \in types}}

PatternTypes == {"common_prefix", "common_suffix", "compound_pattern"}

\* C24: every strategy builds its candidate groups from the tags that no
\* earlier strategy claimed: no synonym_group candidate contains a tag of a
\* stem_match group, and no common_prefix, common_suffix or compound_pattern
\* candidate contains a tag of a stem_match group or of a synonym_group
\* candidate.
C24_StrategiesUseUnclaimedTags ==
    SemanticDone =>
       /\ CandidateTags({"synonym_group"}) \cap CandidateTags({"stem_match"}) = {}
       /\ CandidateTags(PatternTypes)
             \cap CandidateTags({"stem_match", "synonym_group"}) = {}

\* the candidate groups in the order in which the merge step visits them
VisitedGroups == SortedSeq(CandidateGroups(tag_locations, set_order), HigherGroup)

\* the tags claimed when the merge step reaches the k-th group of V: those
\* of the groups before it of which at least half the tags were unclaimed
RECURSIVE ClaimedBefore(_, _)
ClaimedBefore(V, k) ==
    IF k = 1 THEN {}
    ELSE LET prev == ClaimedBefore(V, k - 1)
         IN IF 2 * Cardinality(Range(V[k - 1].tags) \ prev) >= Len(V[k - 1].tags)
            THEN prev \cup Range(V[k - 1].tags)
            ELSE prev

UnclaimedAt(V, k) == Range(V[k].tags) \ ClaimedBefore(V, k)

AcceptedAt(V) ==
    {k \in 1..Len(V) : 2 * Cardinality(UnclaimedAt(V, k)) >= Len(V[k].tags)}

\* the groups returned are the first 20 accepted groups of V, in order,
\* each with the tags that were unclaimed at its turn
ReturnsFirstAccepted(V, acc) ==
    /\ \A i, j \in 1..Len(V) :
          i < j => \/ V[i].confidence > V[j].confidence
                   \/ /\ V[i].confidence = V[j].confidence
                      /\ V[i].total_uses >= V[j].total_uses
    /\ Len(semantic) = Min2(Cardinality(acc), TopGroups)
    /\ \A i \in 1..Len(semantic) :
          \E k \in acc :
             /\ Cardinality({a \in acc : a <= k}) = i
             /\ semantic[i].type = V[k].type
             /\ semantic[i].key = V[k].key
             /\ Range(semantic[i].tags) = UnclaimedAt(V, k)

\* C25: the merge step visits the candidate groups by confidence and then
\* total uses, both descending; a group is accepted exactly when at least
\* half of its tags are unclaimed at its turn, its unclaimed tags are then
\* claimed, a rejected group claims nothing, and the first 20 accepted
\* groups are returned.
C25_MergeAcceptsHalfUnclaimed ==
    SemanticDone => ReturnsFirstAccepted(VisitedGroups, AcceptedAt(VisitedGroups))

\* a group with exactly half of its tags unclaimed was accepted, a group
\* with fewer was rejected, and more than 20 groups were accepted
C25_Witness ==
    /\ pc = "done"
    /\ \E k \in AcceptedAt(VisitedGroups) :
          2 * Cardinality(UnclaimedAt(VisitedGroups, k)) = Len(VisitedGroups[k].tags)
    /\ \E k \in 1..Len(VisitedGroups) : k \notin AcceptedAt(VisitedGroups)
    /\ Cardinality(AcceptedAt(VisitedGroups)) > TopGroups

\* the clusters that line 379 did not keep
DiscardedClusters ==
    BuildClusters(co_occurrences, tag_locations, SeedsTried, NoClusters,
                  set_order).discarded

\* C26: a tag added to a cluster that is discarded for having 2 members or
\* fewer stays claimed: it is in no cluster returned, and it starts no
\* cluster of its own when it is a later seed candidate.
C26_DiscardedTagsStayClaimed ==
    ClustersDone =>
       \A d \in 1..Len(DiscardedClusters) :
          \A t \in Range(DiscardedClusters[d].tags) :
             /\ t \in processed
             /\ \A c \in 1..Len(relationships.clusters) :
                   t \notin Range(relationships.clusters[c].tags)
             /\ t # DiscardedClusters[d].seed => t \notin Range(SeedsStarted)

\* a cluster of a seed and one more tag was discarded; that tag is a seed
\* candidate itself and a strongly associated neighbour of the seed of a
\* cluster returned
C26_Witness ==
    /\ pc = "done"
    /\ \E d \in 1..Len(DiscardedClusters) :
          \E t \in Range(DiscardedClusters[d].tags) \ {DiscardedClusters[d].seed} :
             /\ \E i \in 1..Len(SeedsTried) : SeedsTried[i][1] = t
             /\ \E c \in 1..Len(relationships.clusters) :
                   t \in ClusterMembersUnchecked(co_occurrences, tag_locations,
                                                relationships.clusters[c].seed, {})

\* C27: every semantic group returned has at least 2 member tags; a group
\* that the merge step reduced to one tag is not emitted.
C27_GroupsHaveTwoTags ==
    SemanticDone => \A i \in 1..Len(semantic) : Len(semantic[i].tags) >= 2

\* the total_uses of the candidate group that the i-th group returned was
\* before the merge step
CandidateUses(V, i) ==
    V[CHOOSE k \in 1..Len(V) :
         V[k].type = semantic[i].type /\ V[k].key = semantic[i].key].total_uses

\* for every group returned, the total_uses of its candidate
CandidateUsesOf(V) == AsFcn([i \in 1..Len(semantic) |-> CandidateUses(V, i)])

\* the list returned is in the order of the confidence and then of the
\* total_uses cu of the candidates, and reports the uses of the tags left
OrderedByCandidateUses(cu) ==
    /\ \A i, j \in 1..Len(semantic) :
          i < j => \/ semantic[i].confidence > semantic[j].confidence
                   \/ /\ semantic[i].confidence = semantic[j].confidence
                      /\ cu[i] >= cu[j]
    /\ \A i \in 1..Len(semantic) :
          /\ semantic[i].total_uses <= cu[i]
          /\ semantic[i].total_uses = SumUsesOf(tag_locations, semantic[i].tags)

\* a group that lost tags in the merge step is listed before a group of
\* the same confidence that reports more uses
ListedBeforeLargerGroup(cu) ==
    \E i, j \in 1..Len(semantic) :
       /\ i < j
       /\ semantic[i].confidence = semantic[j].confidence
       /\ semantic[i].total_uses < semantic[j].total_uses
       /\ semantic[i].total_uses < cu[i]

\* C28 as stated: the list returned is ordered by (confidence, total_uses), both
\* descending, for the total_uses it reports, which are those of the tags
\* left in each group by the merge step.
C28_ReturnedOrderByReportedUses ==
    SemanticDone =>
       \A i, j \in 1..Len(semantic) :
          i < j => \/ semantic[i].confidence > semantic[j].confidence
                   \/ /\ semantic[i].confidence = semantic[j].confidence
                      /\ semantic[i].total_uses >= semantic[j].total_uses

\* C28, amended: the list returned is ordered by confidence, descending,
\* and among groups of one confidence by the total_uses that their
\* candidates had before the merge step, descending; the total_uses
\* reported is that of the tags left and is never larger.
C28_ReturnedOrderByCandidateUses ==
    SemanticDone => OrderedByCandidateUses(CandidateUsesOf(VisitedGroups))

\* a group that lost tags in the merge step is listed before a group of
\* the same confidence that reports more uses
C28_Witness ==
    /\ pc = "done"
    /\ ListedBeforeLargerGroup(CandidateUsesOf(VisitedGroups))

\* C29: the co-occurrence counts that calculate_tag_quality_metrics builds
\* for itself are, for every ordered pair of distinct tags, the weights that
\* analyze_tag_relationships built, so the diversity score counts the
\* neighbours of weight above 1 of the graph that the cluster and bridge
\* stages use.
C29_QualityUsesSameGraph ==
    QualityDone =>
       \A a \in Range(tag_locations.keys) :
          /\ \A b \in Range(tag_locations.keys) \ {a} :
                quality.co_occurrences[a][b] = Weight(a, b)
          /\ quality.of[a].co_tag_count =
                Cardinality({b \in DOMAIN CoTags(co_occurrences, a) :
                               co_occurrences.w[a][b] > 1})

\* the quality stage has counted a pair of tags found together in two
\* documents or more, one of which is written twice in a document, and a
\* tag has a neighbour that it met in one document only
C29_Witness ==
    /\ pc = "done"
    /\ \E a, b \in Range(tag_locations.keys) :
          /\ a # b
          /\ quality.co_occurrences[a][b] > 1
          /\ Uses(tag_locations, a) > Cardinality(DocsWith(a))
    /\ \E a \in Range(tag_locations.keys) :
          /\ quality.of[a].co_tag_count > 0
          /\ quality.of[a].co_tag_count
                < Cardinality(DOMAIN CoTags(co_occurrences, a))

\* the tags recommended for removal, in any category
AllRemovalTags == UNION {RemovalTags(RemovalCategories[k]) : k \in 1..Len(RemovalCategories)}

\* the entries of the candidate lists that name the tag t
RemovalEntries(t) ==
    {ki \in (1..Len(RemovalCategories)) \X (1..Cardinality(AllRemovalTags) + 1) :
        /\ ki[2] <= Len(removal[RemovalCategories[ki[1]]])
        /\ removal[RemovalCategories[ki[1]]][ki[2]].tag = t}

\* C30: every tag is listed at most once across the categories of the
\* result of analyze_tags_to_remove, so total_tags_to_remove is the number
\* of distinct tags recommended for removal and total_uses_affected counts
\* the uses of each of them once.
C30_EachTagListedOnce ==
    RemovalDone =>
       /\ \A t \in AllRemovalTags : Cardinality(RemovalEntries(t)) = 1
       /\ RemovalStatistics(removal).total_tags_to_remove
             = Cardinality(AllRemovalTags)
       /\ RemovalStatistics(removal).total_uses_affected
             = SumUses(tag_locations, AllRemovalTags)
====
